---- MODULE Spec2Model ----
(***************************************************************************)
(* Model of the member-and-connection sizing engine (dimensionar_barras    *)
(* and the helpers it calls).                                              *)
(*                                                                         *)
(* Units of the integer arithmetic: lengths in mm, areas in mm2, stresses  *)
(* in kgf/cm2, forces in 0.01 kgf (1 kgf/cm2 x 1 mm2 = 0.01 kgf), bending  *)
(* moduli in mm3.  Ratios ("taxas") are kept as percentages rounded up,    *)
(* so that  taxa <= 100  is exactly  solicited <= admissible  and          *)
(* taxa > 90  is exactly  solicited / admissible > 0.90.                   *)
(* Python None is represented by Nulo (numbers) and "None" (names).        *)
(***************************************************************************)
EXTENDS Integers, Sequences, FiniteSets, TLC

Nulo == 0 - 1

Abs(x) == IF x < 0 THEN 0 - x ELSE x
MaxInt(a, b) == IF a >= b THEN a ELSE b

\* ceil(100 * num / den), the percentage form of num / den (den > 0)
Percentual(num, den) == (100 * num + den - 1) \div den

\* integer square root by bisection (math.sqrt, rounded down)
RECURSIVE Bissecao(_, _, _)
Bissecao(n, lo, hi) ==
  IF hi - lo <= 1 THEN lo
  ELSE LET mid == (lo + hi) \div 2
       IN IF mid * mid <= n THEN Bissecao(n, mid, hi) ELSE Bissecao(n, lo, mid)
RaizInteira(n) == Bissecao(n, 0, 46340)

(***************************************************************************)
(* Constants of utilitarios/constantes.py                                  *)
(***************************************************************************)
LIMITE_ESBELTEZ_TRACAO == 375
LIMITE_ESBELTEZ_MONTANTE == 150
LIMITE_ESBELTEZ_DIAG_HORIZ == 200
MODULO_ELASTICIDADE_ACO == 2038894
LIMITE_TAXA_TRABALHO_DIAG_HORIZ == 90
MAX_CICLOS_REFORCO == 10
FORCA_AXIAL_SIMULADA_MINIMA == 1
LIMITE_W_T == 25
FOLGA_FURO == 3
CARGA_FLEXAO == 100

\* pi^2 * E
Pi2E == (98696 * (MODULO_ELASTICIDADE_ACO \div 100)) \div 100

(***************************************************************************)
(* Inputs of dimensionar_barras: configuration, material table, catalog.   *)
(***************************************************************************)
coef_minoracao == [num |-> 9, den |-> 10]
diametros_furos == [montante |-> 13, diagonal |-> 13, horizontal |-> 13]
limite_parafusos == [montante |-> 4, diagonal |-> 2, horizontal |-> 2]
planos_cisalhamento == [montante |-> 1, diagonal |-> 1, horizontal |-> 1]
\* FATOR_ESMAGAMENTO_PADRAO = 1.3/1.2 = 13/12 and 1.25 = 15/12, in twelfths
fatores_esmagamento == <<13, 15>>
descontos_area_liquida == [diagonal |-> 1, horizontal |-> 1]
df_materiais == [fy |-> 3500, fu |-> 4500, fc |-> 3200]

NotaOK == "OK!"
NotaNaoMontante == "Nao utilizar em montante! (Flambagem Local)"

\* the spreadsheet of profiles (rows in file order)
tabela_perfis ==
  << [Perfil |-> "L40x6", A |-> 480, rx |-> 15, rz |-> 10, b |-> 40, t |-> 6,
      raio_lam |-> 5, Wx |-> 2400, Peso |-> 38, Dmax |-> 16, Notas |-> NotaOK,
      NpMin |-> 2, QtdFurosAn |-> 1],
     [Perfil |-> "L45x7", A |-> 540, rx |-> 13, rz |-> 9, b |-> 45, t |-> 7,
      raio_lam |-> 5, Wx |-> 3100, Peso |-> 42, Dmax |-> 16, Notas |-> NotaOK,
      NpMin |-> 2, QtdFurosAn |-> 1],
     [Perfil |-> "L60x5", A |-> 550, rx |-> 19, rz |-> 12, b |-> 60, t |-> 5,
      raio_lam |-> 6, Wx |-> 4400, Peso |-> 43, Dmax |-> 16, Notas |-> NotaOK,
      NpMin |-> 2, QtdFurosAn |-> 1],
     [Perfil |-> "L50x7", A |-> 600, rx |-> 16, rz |-> 10, b |-> 50, t |-> 7,
      raio_lam |-> 6, Wx |-> 4100, Peso |-> 47, Dmax |-> 16, Notas |-> NotaOK,
      NpMin |-> 2, QtdFurosAn |-> 1],
     [Perfil |-> "L30x3", A |-> 174, rx |-> 9, rz |-> 6, b |-> 30, t |-> 3,
      raio_lam |-> 4, Wx |-> 650, Peso |-> 14, Dmax |-> 12, Notas |-> NotaOK,
      NpMin |-> 2, QtdFurosAn |-> 1],
     [Perfil |-> "L75x4", A |-> 590, rx |-> 23, rz |-> 15, b |-> 75, t |-> 4,
      raio_lam |-> 7, Wx |-> 5900, Peso |-> 41, Dmax |-> 16,
      Notas |-> NotaNaoMontante, NpMin |-> 2, QtdFurosAn |-> 1] >>

NomesPerfis == {tabela_perfis[i].Perfil : i \in 1..Len(tabela_perfis)}

\* variant: the leg catalog is the whole spreadsheet
df_montantes_sem_filtro == tabela_perfis

\* carregar_tabela_perfis: the two filtered catalogs
df_montantes == SelectSeq(tabela_perfis, LAMBDA p : p.Notas = NotaOK)
df_diagonais_horizontais ==
  SelectSeq(tabela_perfis, LAMBDA p : p.Notas \in {NotaOK, NotaNaoMontante})
\* pd.concat([df_montantes, df_diagonais_e_horizontais]).drop_duplicates()
df_perfis ==
  df_montantes \o SelectSeq(df_diagonais_horizontais, LAMBDA p : p.Notas # NotaOK)

\* df[df["Perfil"].str.strip() == nome]: index of the first matching row, 0 if none
IndicePerfil(tabela, nome) ==
  IF \E i \in 1..Len(tabela) : tabela[i].Perfil = nome
  THEN CHOOSE i \in 1..Len(tabela) :
         /\ tabela[i].Perfil = nome
         /\ \A j \in 1..(i - 1) : tabela[j].Perfil # nome
  ELSE 0

filtrar_por_diametro_parafuso(tabela, diametro) ==
  SelectSeq(tabela, LAMBDA p : p.Dmax >= diametro)

filtrar_perfis_montante_reforco(tabela, diametro) ==
  filtrar_por_diametro_parafuso(
    SelectSeq(tabela, LAMBDA p : p.Notas # NotaNaoMontante), diametro)

obter_fy(perfil) == df_materiais.fy
obter_fu(perfil) == df_materiais.fu

(***************************************************************************)
(* Bar types                                                               *)
(***************************************************************************)
EhMontante(tipo) == tipo \in {"montante_esq", "montante_dir"}
TipoBase(tipo) ==
  IF EhMontante(tipo) THEN "montante"
  ELSE IF tipo = "diagonal" THEN "diagonal" ELSE "horizontal"
DiametroFuro(tipo) == diametros_furos[TipoBase(tipo)]

(***************************************************************************)
(* utilitarios/verif_normativas.py                                         *)
(***************************************************************************)
\* L/r (for legs) or the corrected slenderness of diagonals, times 10
calcular_esbeltez_corrigida(tipo_barra, comprimento, raio_giracao) ==
  IF EhMontante(tipo_barra) THEN (10 * comprimento) \div raio_giracao
  ELSE IF comprimento <= 120 * raio_giracao
       THEN 600 + (5 * comprimento) \div raio_giracao
       ELSE (10 * comprimento) \div raio_giracao

\* the same quantity compared exactly against a limit: esbeltez_corrigida > limite
EsbeltezCorrigidaExcede(tipo_barra, comprimento, raio_giracao, limite) ==
  IF EhMontante(tipo_barra) \/ comprimento > 120 * raio_giracao
  THEN comprimento > limite * raio_giracao
  ELSE 120 * raio_giracao + comprimento > 2 * limite * raio_giracao

\* w/t of the leg of the angle, as the pair (w, t)
LarguraUtil(dados_perfil) == dados_perfil.b - dados_perfil.t - dados_perfil.raio_lam

\* Fy corrected for local buckling; thresholds 209.6 and 377.28 over sqrt(Fy[MPa])
\* are compared in squared form: (w/t)^2 * fy <= 209.6^2 * 10.1972
corrigir_fy_por_flambagem_local(dados_perfil, tensao_fy_nominal) ==
  LET w == LarguraUtil(dados_perfil)
      t == dados_perfil.t
      \* sqrt(fy / 10.1972) * 1000
      raiz1000 == RaizInteira(((tensao_fy_nominal * 100000) \div 101972) * 100000)
      \* (w/t) / limite_inferior, times 1000
      razao1000 == (w * raiz1000 * 10) \div (2096 * t)
      fator1000 == 1677 - (677 * razao1000) \div 1000
  IN IF w * w * tensao_fy_nominal <= 447985 * t * t THEN tensao_fy_nominal
     ELSE IF w * w * tensao_fy_nominal <= 1451471 * t * t
          THEN (fator1000 * tensao_fy_nominal) \div 1000
          ELSE (((332 * (Pi2E \div 100)) \div 100) * t * t) \div (w * w)

\* ASCE 10-15 allowable compression stress; esb10 is the slenderness times 10
fa_asce(esb10, tensao_fy_corrigida) ==
  LET cc2 == (2 * Pi2E) \div tensao_fy_corrigida
      esb2 == (esb10 * esb10) \div 100
  IN IF esb10 * esb10 <= 100 * cc2
     THEN tensao_fy_corrigida - (tensao_fy_corrigida * esb2) \div (2 * cc2)
     ELSE (Pi2E * 100) \div (esb10 * esb10)

verifica_flexao_simples(tipo_barra, angulo_graus, comprimento, Wx, tensao_fy) ==
  IF EhMontante(tipo_barra) THEN TRUE
  ELSE IF ~ (\/ (0 <= angulo_graus /\ angulo_graus <= 45)
             \/ (135 <= angulo_graus /\ angulo_graus <= 225)
             \/ (315 <= angulo_graus /\ angulo_graus <= 360))
       THEN TRUE
       \* 100 kgf * L / 4 <= Wx * fy * coef, in mm and mm3
       ELSE (CARGA_FLEXAO \div 4) * 1000 * comprimento * coef_minoracao.den
              <= Wx * tensao_fy * coef_minoracao.num * 10

dicionario_inviavel(solicitacao) ==
  [solicitacao |-> solicitacao, viavel |-> FALSE, area_bruta |-> Nulo,
   area_efetiva |-> Nulo, forca_axial_admissivel |-> Nulo, taxa_trabalho |-> Nulo,
   Fa_reduzido |-> Nulo, ft_admissivel |-> Nulo]

\* (Ag - n (d + folga) t) * Ct, times 10
calcular_area_liquida_efetiva(dados_perfil, diametro_furo, tipo_barra) ==
  LET tipo_base == TipoBase(tipo_barra)
      n_furos == IF tipo_base \in DOMAIN descontos_area_liquida
                 THEN descontos_area_liquida[tipo_base]
                 ELSE dados_perfil.QtdFurosAn
      area_liquida == dados_perfil.A
                      - n_furos * (diametro_furo + FOLGA_FURO) * dados_perfil.t
  IN area_liquida * (IF EhMontante(tipo_barra) THEN 10 ELSE 9)

\* stresses are kept times 10 (Fa_reduzido, ft_admissivel), areas_efetivas times 10
calcula_tensao_axial_admissivel(dados_perfil, forca_axial, tipo_barra, comprimento_efetivo, diametro_furo, limitar_esbeltez_tracao, forcar_verificacao_compressao) ==
  LET solicitacao == IF forca_axial > 0 THEN "tracao" ELSE "compressao"
      area_bruta == dados_perfil.A
      raio_giracao == IF EhMontante(tipo_barra) THEN dados_perfil.rx
                      ELSE dados_perfil.rz
      tensao_fy_nominal == obter_fy(dados_perfil)
      esbelta ==
        IF solicitacao = "compressao" \/ forcar_verificacao_compressao
        THEN IF EhMontante(tipo_barra)
             THEN comprimento_efetivo > LIMITE_ESBELTEZ_MONTANTE * raio_giracao
             ELSE EsbeltezCorrigidaExcede(tipo_barra, comprimento_efetivo,
                                          raio_giracao, LIMITE_ESBELTEZ_DIAG_HORIZ)
        ELSE limitar_esbeltez_tracao
             /\ comprimento_efetivo > LIMITE_ESBELTEZ_TRACAO * raio_giracao
      F == Abs(forca_axial)
      ft_admissivel == (coef_minoracao.num * 10 * tensao_fy_nominal)
                         \div coef_minoracao.den
      Fa(esb10) == fa_asce(esb10, corrigir_fy_por_flambagem_local(dados_perfil,
                                                                  tensao_fy_nominal))
      resultado(area_efetiva, Fa_reduzido, forca_axial_admissivel) ==
        [solicitacao |-> solicitacao,
         viavel |-> IF solicitacao = "compressao"
                    THEN 10 * F <= Fa_reduzido * area_bruta
                    ELSE IF area_efetiva = 0 THEN FALSE
                         ELSE IF area_efetiva < 0 THEN TRUE
                         ELSE 100 * F <= ft_admissivel * area_efetiva,
         area_bruta |-> area_bruta, area_efetiva |-> area_efetiva,
         forca_axial_admissivel |-> forca_axial_admissivel,
         taxa_trabalho |-> IF forca_axial_admissivel > 0
                           THEN Percentual(F, forca_axial_admissivel)
                           ELSE 999900,
         Fa_reduzido |-> IF solicitacao = "compressao" THEN Fa_reduzido ELSE Nulo,
         ft_admissivel |-> IF solicitacao = "tracao" THEN ft_admissivel ELSE Nulo]
      admissiveis(area_efetiva, Fa_reduzido) ==
        resultado(area_efetiva, Fa_reduzido,
                  IF solicitacao = "compressao" THEN (Fa_reduzido * area_bruta) \div 10
                  ELSE (ft_admissivel * area_efetiva) \div 100)
  IN IF esbelta THEN dicionario_inviavel(solicitacao)
     ELSE admissiveis(
            calcular_area_liquida_efetiva(dados_perfil, diametro_furo, tipo_barra),
            (coef_minoracao.num * 10
               * Fa(calcular_esbeltez_corrigida(tipo_barra, comprimento_efetivo,
                                                raio_giracao)))
              \div coef_minoracao.den)

(***************************************************************************)
(* utilitarios/ligacoes.py: dimensionar_ligacao                            *)
(***************************************************************************)
\* pi (d/2)^2 in 0.01 mm2
AreaParafuso(d_furo) == (31416 * d_furo * d_furo) \div 400

\* coef * np * area_parafuso * fv * planos
ForcaAdmCisalhamento(np, tipo_base) ==
  (coef_minoracao.num * np * AreaParafuso(diametros_furos[tipo_base])
     * planos_cisalhamento[tipo_base] * (df_materiais.fc \div 10))
  \div (coef_minoracao.den * 10)

\* coef * fator_fp * fu * np * d * t  (fator_fp in twelfths)
ForcaAdmEsmagamento(np, tipo_base, espessura_aba, fator_fp, fu_peca) ==
  (coef_minoracao.num * fator_fp * fu_peca * np * diametros_furos[tipo_base]
     * espessura_aba) \div (coef_minoracao.den * 12)

\* variant: the record of an infeasible design keeps a zero utilization
LigacaoInviavelSemTaxa ==
  [forma |-> "completa", ligacao_viavel |-> FALSE, np |-> Nulo,
   forca_adm_cisalhamento |-> 0, forca_adm_esmagamento |-> 0, tx_lig |-> 0,
   fator_fp |-> Nulo, erro |-> ""]

\* lines 122-133: the record returned when no combination works
LigacaoInviavel ==
  [forma |-> "completa", ligacao_viavel |-> FALSE, np |-> Nulo,
   forca_adm_cisalhamento |-> 0, forca_adm_esmagamento |-> 0, tx_lig |-> 99900,
   fator_fp |-> Nulo, erro |-> ""]

\* an empty dict {} stored as "verificacao_ligacao"
LigacaoVazia ==
  [forma |-> "vazia", ligacao_viavel |-> TRUE, np |-> Nulo,
   forca_adm_cisalhamento |-> 0, forca_adm_esmagamento |-> 0, tx_lig |-> 0,
   fator_fp |-> Nulo, erro |-> ""]

LigacaoErro(nome) == [LigacaoInviavel EXCEPT !.erro = nome]

\* variant: only the last bearing factor of the list is tried
TentarSoOUltimoFator(F, np, tipo_base, espessura_aba, fu_peca, k) ==
  LET fator_fp == fatores_esmagamento[Len(fatores_esmagamento)]
      Fc == ForcaAdmCisalhamento(np, tipo_base)
      Fe == ForcaAdmEsmagamento(np, tipo_base, espessura_aba, fator_fp, fu_peca)
  IN IF np * diametros_furos[tipo_base] * espessura_aba = 0
     THEN LigacaoErro("ZeroDivisionError")
     ELSE IF F <= Fe /\ F <= Fc
     THEN [forma |-> "completa", ligacao_viavel |-> TRUE, np |-> np,
           forca_adm_cisalhamento |-> Fc, forca_adm_esmagamento |-> Fe,
           tx_lig |-> MaxInt(Percentual(F, Fc), Percentual(F, Fe)),
           fator_fp |-> fator_fp, erro |-> ""]
     ELSE LigacaoInviavel

\* the inner loop over fatores_esmagamento for one bolt count
RECURSIVE TentarFatores(_, _, _, _, _, _)
TentarFatores(F, np, tipo_base, espessura_aba, fu_peca, k) ==
  IF k > Len(fatores_esmagamento) THEN LigacaoInviavel
  ELSE IF np * diametros_furos[tipo_base] * espessura_aba = 0
       THEN LigacaoErro("ZeroDivisionError")
  ELSE LET fator_fp == fatores_esmagamento[k]
           Fc == ForcaAdmCisalhamento(np, tipo_base)
           Fe == ForcaAdmEsmagamento(np, tipo_base, espessura_aba, fator_fp, fu_peca)
       IN IF /\ coef_minoracao.den * 12 * F
                  <= coef_minoracao.num * fator_fp * fu_peca * np
                       * diametros_furos[tipo_base] * espessura_aba
             \* line 107: if tx_ligacao <= 1.0
             /\ MaxInt(Percentual(F, Fc), Percentual(F, Fe)) <= 100
          THEN [forma |-> "completa", ligacao_viavel |-> TRUE, np |-> np,
                forca_adm_cisalhamento |-> Fc, forca_adm_esmagamento |-> Fe,
                tx_lig |-> MaxInt(Percentual(F, Fc), Percentual(F, Fe)),
                fator_fp |-> fator_fp, erro |-> ""]
          ELSE TentarFatores(F, np, tipo_base, espessura_aba, fu_peca, k + 1)

\* variant: odd bolt counts are tried for legs as well
RECURSIVE TentarParafusosSemParidade(_, _, _, _, _)
TentarParafusosSemParidade(F, np, tipo_base, espessura_aba, fu_peca) ==
  IF np > limite_parafusos[tipo_base] THEN LigacaoInviavel
  ELSE IF F > ForcaAdmCisalhamento(np, tipo_base)
       THEN TentarParafusosSemParidade(F, np + 1, tipo_base, espessura_aba, fu_peca)
  ELSE LET decidir(lig) ==
             IF lig.ligacao_viavel \/ lig.erro # "" THEN lig
             ELSE TentarParafusosSemParidade(F, np + 1, tipo_base, espessura_aba,
                                             fu_peca)
       IN decidir(TentarFatores(F, np, tipo_base, espessura_aba, fu_peca, 1))

\* the loop  for np in range(np_min, np_max + 1)
RECURSIVE TentarParafusos(_, _, _, _, _)
TentarParafusos(F, np, tipo_base, espessura_aba, fu_peca) ==
  IF np > limite_parafusos[tipo_base] THEN LigacaoInviavel
  ELSE IF tipo_base = "montante" /\ np % 2 # 0
       THEN TentarParafusos(F, np + 1, tipo_base, espessura_aba, fu_peca)
  ELSE IF F > ForcaAdmCisalhamento(np, tipo_base)
       THEN TentarParafusos(F, np + 1, tipo_base, espessura_aba, fu_peca)
  ELSE LET decidir(lig) ==
             IF lig.ligacao_viavel \/ lig.erro # "" THEN lig
             ELSE TentarParafusos(F, np + 1, tipo_base, espessura_aba, fu_peca)
       IN decidir(TentarFatores(F, np, tipo_base, espessura_aba, fu_peca, 1))

\* perfil_nome = "None" stands for a Python None passed as the profile name
dimensionar_ligacao(forca_axial, tipo_barra, perfil_nome, espessura_aba, fu_peca) ==
  LET tipo_base == TipoBase(tipo_barra)
      idx == IndicePerfil(df_perfis, perfil_nome)
      np_min == IF tipo_base = "montante"
                THEN (IF idx = 0 THEN 4 ELSE df_perfis[idx].NpMin)
                ELSE 1
  IN IF tipo_base = "montante" /\ perfil_nome = "None"
     THEN LigacaoErro("AttributeError")
     ELSE TentarParafusos(Abs(forca_axial), np_min, tipo_base, espessura_aba, fu_peca)

\* utilitarios/wrappers.py
wrapper_ligacao_montante(perfil, forca, tipo_barra) ==
  dimensionar_ligacao(forca, tipo_barra, perfil.Perfil, perfil.t, obter_fu(perfil))

\* max(tx_axial, tx_flex); tx_axial is None for a profile rejected for
\* slenderness, and max(None, float) raises TypeError
verificar_axial_flexao(perfil, forca, tipo_barra, comprimento, angulo_graus) ==
  LET flex_ok == verifica_flexao_simples(tipo_barra, angulo_graus, comprimento,
                                         perfil.Wx, obter_fy(perfil))
      tx_flex == IF flex_ok THEN 0 ELSE 99900
      maximo(tx_axial) ==
        IF tx_axial = Nulo
        THEN [erro |-> "TypeError", tx |-> Nulo]
        ELSE [erro |-> "", tx |-> MaxInt(tx_axial, tx_flex)]
  IN maximo(calcula_tensao_axial_admissivel(perfil, forca, tipo_barra,
              comprimento, diametros_furos.montante, FALSE, TRUE).taxa_trabalho)

(***************************************************************************)
(* Structures handed to dimensionar_barras (estrutura.barras_para_         *)
(* dimensionar as produced by gerador_estrutura for one module of two and  *)
(* of four vertical divisions).  Of the diagonals and the top horizontal,  *)
(* which are sized independently of every other member, one diagonal is    *)
(* kept.                                                                   *)
(***************************************************************************)
Montante(tipo, y_min, y_max) ==
  [tipo |-> tipo, comprimento |-> y_max - y_min, alfa_graus |-> 90,
   y_min |-> y_min, y_max |-> y_max, modulo |-> 1,
   comprimento_destravado |-> 2000,
   base_modulo |-> FALSE, topo_modulo |-> FALSE, topo_estrutura |-> FALSE,
   perfil_escolhido |-> "None"]

Diagonal ==
  [tipo |-> "diagonal", comprimento |-> 1414, alfa_graus |-> 225,
   y_min |-> 1000, y_max |-> 2000, modulo |-> Nulo,
   comprimento_destravado |-> Nulo,
   base_modulo |-> FALSE, topo_modulo |-> FALSE, topo_estrutura |-> FALSE,
   perfil_escolhido |-> "None"]

Estruturas == {"D2", "D4"}

barras_para_dimensionar(estrutura) ==
  IF estrutura = "D2"
  THEN 1 :> Montante("montante_esq", 1000, 2000)
    @@ 2 :> Montante("montante_esq", 0, 1000)
    @@ 3 :> Montante("montante_dir", 0, 2000)
    @@ 4 :> Diagonal
  ELSE 1 :> Montante("montante_esq", 3000, 4000)
    @@ 2 :> Montante("montante_esq", 1000, 3000)
    @@ 3 :> Montante("montante_esq", 0, 1000)
    @@ 4 :> Montante("montante_dir", 2000, 4000)
    @@ 5 :> Montante("montante_dir", 0, 2000)
    @@ 6 :> Diagonal

\* sorted(ids, key=ordenar_id_barra) for integer ids
RECURSIVE Ordenados(_)
Ordenados(S) ==
  IF S = {} THEN <<>>
  ELSE LET m == CHOOSE x \in S : \A y \in S : x <= y
       IN <<m>> \o Ordenados(S \ {m})

(***************************************************************************)
(* Load hypotheses: the pair of axial forces (Fh(+), Fh(-)) of a member    *)
(***************************************************************************)
HipotesesReais == <<"H1", "H2">>

CenariosMontante ==
  { <<300000, 0 - 300000>>, <<1400000, 0 - 300000>>, <<1000000, 0 - 400000>>,
    <<1300000, 300000>>, <<1550000, 0 - 300000>>, <<1600000, 0 - 1600000>>,
    <<0, 0>>, <<300000, 0 - 1000000>>, <<300000, 0 - 800000>>,
    <<1490000, 0 - 300000>>, <<1530000, 0 - 300000>> }

\* the lower left leg and the right leg of the two-division module
CenariosMontanteInferior ==
  { <<300000, 0 - 300000>>, <<1300000, 300000>>, <<0, 0>> }
CenariosMontanteDireito ==
  { <<300000, 0 - 300000>>, <<1000000, 0 - 400000>>, <<0, 0>>,
    <<300000, 0 - 350000>>, <<1600000, 0 - 1600000>>, <<300000, 0 - 800000>> }

CenariosBrandos == { <<300000, 0 - 300000>>, <<1000000, 0 - 400000>> }

CenariosDiagonal ==
  { <<200000, 0 - 200000>>, <<1000000, 0 - 1000000>>, <<300000, 100000>>,
    <<200000, 0 - 400000>> }

CenariosDaBarra(estrutura, id) ==
  IF id \notin DOMAIN barras_para_dimensionar(estrutura) THEN {<<0, 0>>}
  ELSE IF ~ EhMontante(barras_para_dimensionar(estrutura)[id].tipo)
  THEN (IF estrutura = "D2" THEN CenariosDiagonal ELSE {<<200000, 0 - 200000>>})
  ELSE IF estrutura = "D2"
  THEN (IF id = 1 THEN CenariosMontante
        ELSE IF id = 2 THEN CenariosMontanteInferior
        ELSE CenariosMontanteDireito)
  ELSE IF id = 2 THEN CenariosMontante
  ELSE IF id \in {3, 5} THEN CenariosBrandos
  ELSE {<<300000, 0 - 300000>>}

\* esforcos_por_hipotese is an insertion-ordered dict: a sequence of
\* [nome, barras] where barras maps the ids present to their axial force
Hipotese(esforcos, nome) ==
  esforcos[CHOOSE i \in 1..Len(esforcos) : esforcos[i].nome = nome]

TemHipotese(esforcos, nome) == \E i \in 1..Len(esforcos) : esforcos[i].nome = nome

\* esforcos_por_barra[id]: the forces of a member in hypothesis order
EsforcosDaBarra(esforcos, id) ==
  LET com == SelectSeq(esforcos, LAMBDA h : id \in DOMAIN h.barras)
  IN [i \in 1..Len(com) |-> com[i].barras[id]]

\* esforcos_por_hipotese.setdefault(nome, {})[id] = forca
DefinirEsforco(esforcos, nome, id, forca) ==
  IF TemHipotese(esforcos, nome)
  THEN [i \in 1..Len(esforcos) |->
          IF esforcos[i].nome = nome
          THEN [esforcos[i] EXCEPT !.barras = (id :> forca) @@ @]
          ELSE esforcos[i]]
  ELSE Append(esforcos, [nome |-> nome, barras |-> (id :> forca)])

(***************************************************************************)
(* utilitarios/ferramentas_montantes.py: extremities, connection-required  *)
(* members and their mirrors                                               *)
(***************************************************************************)
EhMontanteComModulo(dados) == EhMontante(dados.tipo) /\ dados.modulo # Nulo

MinDe(S) == CHOOSE x \in S : \A y \in S : x <= y
MaxDe(S) == CHOOSE x \in S : \A y \in S : x >= y

marcar_montantes_em_extremidades(metadados) ==
  LET montantes == {id \in DOMAIN metadados : EhMontanteComModulo(metadados[id])}
      doModulo(m) == {id \in montantes : metadados[id].modulo = m}
      menor_y(m) == MinDe({metadados[id].y_min : id \in doModulo(m)})
      maior_y(m) == MaxDe({metadados[id].y_max : id \in doModulo(m)})
      modulo_topo == MinDe({metadados[id].modulo : id \in montantes})
  IN [id \in DOMAIN metadados |->
        IF id \notin montantes THEN metadados[id]
        ELSE LET d == metadados[id]
             IN [d EXCEPT
                   !.base_modulo = (d.y_min = menor_y(d.modulo)),
                   !.topo_modulo = (d.y_max = maior_y(d.modulo)),
                   !.topo_estrutura = (d.modulo = modulo_topo
                                       /\ d.y_max = maior_y(modulo_topo))]]

MaxSeq(lista) == MaxDe({lista[i] : i \in 1..Len(lista)})
MinSeq(lista) == MinDe({lista[i] : i \in 1..Len(lista)})

\* the member of a group with the largest tension (strict >, first wins)
MaisTracionado(ids, esforcos) ==
  LET val(k) == MaxSeq(EsforcosDaBarra(esforcos, ids[k]))
      k0 == CHOOSE k \in 1..Len(ids) :
              /\ \A j \in 1..Len(ids) : val(j) <= val(k)
              /\ \A j \in 1..(k - 1) : val(j) < val(k)
  IN ids[k0]

\* the member of a group with the largest compression (strict <, first wins)
MaisComprimido(ids, esforcos) ==
  LET val(k) == MinSeq(EsforcosDaBarra(esforcos, ids[k]))
      k0 == CHOOSE k \in 1..Len(ids) :
              /\ \A j \in 1..Len(ids) : val(j) >= val(k)
              /\ \A j \in 1..(k - 1) : val(j) > val(k)
  IN ids[k0]

identificar_montantes_com_ligacao(metadados, esforcos) ==
  LET montantes == Ordenados({id \in DOMAIN metadados :
                                EhMontanteComModulo(metadados[id])})
      modulos == {metadados[montantes[k]].modulo : k \in 1..Len(montantes)}
      base(m) == SelectSeq(montantes, LAMBDA id :
                   metadados[id].modulo = m /\ metadados[id].base_modulo)
      topo(m) == SelectSeq(montantes, LAMBDA id :
                   metadados[id].modulo = m /\ metadados[id].topo_estrutura)
      grupos == {g \in {base(m) : m \in modulos} \cup {topo(m) : m \in modulos} :
                   Len(g) > 0}
  IN UNION {{MaisTracionado(g, esforcos), MaisComprimido(g, esforcos)} :
              g \in grupos}

\* the members on the opposite side that share the top or the base of id_ref
Simetricos(metadados, id_ref) ==
  LET ref == metadados[id_ref]
      tipo_procurado == IF ref.tipo = "montante_esq" THEN "montante_dir"
                        ELSE "montante_esq"
  IN IF ~ EhMontanteComModulo(ref) THEN {}
     ELSE {c \in DOMAIN metadados :
             /\ c # id_ref
             /\ metadados[c].tipo = tipo_procurado
             /\ metadados[c].modulo = ref.modulo
             /\ (metadados[c].y_max = ref.y_max \/ metadados[c].y_min = ref.y_min)}

expandir_ligacoes_montantes_simetricos(metadados, ids_originais) ==
  ids_originais \cup UNION {Simetricos(metadados, id) : id \in ids_originais}

(***************************************************************************)
(* State of one call of dimensionar_barras                                 *)
(***************************************************************************)
VARIABLES
  estrutura,                 \* which structure was handed in
  interromper_se_inviavel,   \* hard-stop flag
  esforcos_por_hipotese,     \* the caller's dict, written by the call
  metadados_barras,
  ids_ligacao_necessaria,
  barras_exclusivamente_tracionadas,
  pendentes,                 \* members still to be sized (loop of section 2)
  resultado_final,
  ligacoes_forcadas,
  barras_reforcadas,
  tentativa,                 \* reinforcement cycles completed
  pc,                        \* position in the function body
  retorno,                   \* "pendente", "resultado", "None" or the exception
  chamada,                   \* arguments of a direct call of one helper
  devolvido                  \* what that call returned or raised

vars == <<estrutura, interromper_se_inviavel, esforcos_por_hipotese,
          metadados_barras, ids_ligacao_necessaria,
          barras_exclusivamente_tracionadas, pendentes, resultado_final,
          ligacoes_forcadas, barras_reforcadas, tentativa, pc, retorno,
          chamada, devolvido>>

SemEntradas == [x \in {} |-> 0]

\* no helper is called directly during a run of dimensionar_barras
SemChamada == [funcao |-> ""]

Init ==
  /\ estrutura \in Estruturas
  /\ interromper_se_inviavel \in BOOLEAN
  /\ \E c1 \in CenariosDaBarra(estrutura, 1), c2 \in CenariosDaBarra(estrutura, 2),
        c3 \in CenariosDaBarra(estrutura, 3), c4 \in CenariosDaBarra(estrutura, 4),
        c5 \in CenariosDaBarra(estrutura, 5), c6 \in CenariosDaBarra(estrutura, 6) :
       LET cen == <<c1, c2, c3, c4, c5, c6>>
       IN esforcos_por_hipotese =
            [h \in 1..Len(HipotesesReais) |->
               [nome |-> HipotesesReais[h],
                barras |-> [id \in DOMAIN barras_para_dimensionar(estrutura)
                              |-> cen[id][h]]]]
  /\ metadados_barras = barras_para_dimensionar(estrutura)
  /\ ids_ligacao_necessaria = {}
  /\ barras_exclusivamente_tracionadas = {}
  /\ pendentes = <<>>
  /\ resultado_final = SemEntradas
  /\ ligacoes_forcadas = SemEntradas
  /\ barras_reforcadas = {}
  /\ tentativa = 0
  /\ pc = "preparacao"
  /\ chamada = SemChamada
  /\ devolvido = SemChamada
  /\ retorno = "pendente"

\* lines 284-317: metadata, extremity marks, connection-required set
Preparacao ==
  /\ pc = "preparacao"
  /\ UNCHANGED <<chamada, devolvido>>
  /\ LET marcados == marcar_montantes_em_extremidades(metadados_barras)
         ids == identificar_montantes_com_ligacao(marcados, esforcos_por_hipotese)
     IN /\ metadados_barras' = marcados
        /\ ids_ligacao_necessaria' =
             expandir_ligacoes_montantes_simetricos(marcados, ids)
  /\ barras_exclusivamente_tracionadas' =
       {id \in DOMAIN metadados_barras :
          \A h \in 1..Len(esforcos_por_hipotese) :
             esforcos_por_hipotese[h].barras[id] > 0}
  /\ pendentes' = Ordenados(DOMAIN metadados_barras)
  /\ pc' = "dimensionar"
  /\ UNCHANGED <<estrutura, interromper_se_inviavel, esforcos_por_hipotese,
                 resultado_final, ligacoes_forcadas, barras_reforcadas,
                 tentativa, retorno>>

(***************************************************************************)
(* dimensionamento.py, sections 2 to 5: sizing of one member               *)
(***************************************************************************)
PerfilPorNome(tabela, nome) == tabela[IndicePerfil(tabela, nome)]

\* max(F / Fc if Fc else 999, F / Fe if Fe else 999), as a percentage
TaxaLigacao(F, Fc, Fe) ==
  MaxInt(IF Fc # 0 THEN Percentual(F, Fc) ELSE 99900,
         IF Fe # 0 THEN Percentual(F, Fe) ELSE 99900)

\* variant: the checks of the sweep other than the 0.90 limit of lines 501-505
PerfilViavelSemLimiteDeTaxa(dados_perfil, forca_axial, tipo_barra, comprimento, angulo, limitar_esbeltez_tracao, forcar_verificacao_compressao) ==
  LET aprovado(verificacao_axial, verificacao_ligacao) ==
        /\ ~ (LarguraUtil(dados_perfil) > LIMITE_W_T * dados_perfil.t)
        /\ verificacao_axial.viavel
        /\ verifica_flexao_simples(tipo_barra, angulo, comprimento,
                                   dados_perfil.Wx, obter_fy(dados_perfil))
        /\ (~ EhMontante(tipo_barra) =>
              /\ verificacao_ligacao.forca_adm_cisalhamento # 0
              /\ verificacao_ligacao.forca_adm_esmagamento # 0
              /\ TaxaLigacao(Abs(forca_axial),
                             verificacao_ligacao.forca_adm_cisalhamento,
                             verificacao_ligacao.forca_adm_esmagamento) <= 100)
  IN aprovado(
       calcula_tensao_axial_admissivel(dados_perfil, forca_axial, tipo_barra,
         comprimento, DiametroFuro(tipo_barra), limitar_esbeltez_tracao,
         forcar_verificacao_compressao),
       dimensionar_ligacao(forca_axial, tipo_barra, dados_perfil.Perfil,
                           dados_perfil.t, obter_fu(dados_perfil)))

\* lines 409-521: does the catalog row pass every check for this hypothesis
PerfilViavel(dados_perfil, forca_axial, tipo_barra, comprimento, angulo, limitar_esbeltez_tracao, forcar_verificacao_compressao) ==
  LET aprovado(verificacao_axial, verificacao_ligacao) ==
        /\ ~ (LarguraUtil(dados_perfil) > LIMITE_W_T * dados_perfil.t)
        /\ verificacao_axial.viavel
        /\ verifica_flexao_simples(tipo_barra, angulo, comprimento,
                                   dados_perfil.Wx, obter_fy(dados_perfil))
        /\ (~ EhMontante(tipo_barra) =>
              /\ verificacao_ligacao.forca_adm_cisalhamento # 0
              /\ verificacao_ligacao.forca_adm_esmagamento # 0
              /\ TaxaLigacao(Abs(forca_axial),
                             verificacao_ligacao.forca_adm_cisalhamento,
                             verificacao_ligacao.forca_adm_esmagamento) <= 100)
        /\ (~ EhMontante(tipo_barra) =>
              verificacao_axial.taxa_trabalho <= LIMITE_TAXA_TRABALHO_DIAG_HORIZ)
  IN aprovado(
       calcula_tensao_axial_admissivel(dados_perfil, forca_axial, tipo_barra,
         comprimento, DiametroFuro(tipo_barra), limitar_esbeltez_tracao,
         forcar_verificacao_compressao),
       dimensionar_ligacao(forca_axial, tipo_barra, dados_perfil.Perfil,
                           dados_perfil.t, obter_fu(dados_perfil)))

\* variant: the first row that passes is taken, whatever its weight
PrimeiroViavel(perfis) == 1

\* min(perfis_viaveis, key=peso): index of the first row of least weight
MaisLeve(perfis) ==
  CHOOSE i \in 1..Len(perfis) :
    /\ \A j \in 1..Len(perfis) : perfis[i].Peso <= perfis[j].Peso
    /\ \A j \in 1..(i - 1) : perfis[j].Peso > perfis[i].Peso

\* lines 405-552: the best profile of one critical hypothesis, as
\* [perfil_escolhido, area_bruta, area_trabalho]; "NENHUM" when none passes.
\* area_trabalho is |F| / admissible stress in 0.01 mm2.
melhor_da_hipotese(forca_axial, dados_barra, limitar_esbeltez_tracao) ==
  LET tipo_barra == dados_barra.tipo
      comprimento == IF EhMontante(tipo_barra)
                     THEN dados_barra.comprimento_destravado
                     ELSE dados_barra.comprimento
      df_perf == filtrar_por_diametro_parafuso(
                   IF EhMontante(tipo_barra) THEN df_montantes
                   ELSE df_diagonais_horizontais, DiametroFuro(tipo_barra))
      registro(melhor, va) ==
        [perfil_escolhido |-> melhor.Perfil, area_bruta |-> melhor.A,
         area_trabalho |->
           (1000 * Abs(forca_axial))
             \div (IF va.solicitacao = "compressao" THEN va.Fa_reduzido
                   ELSE va.ft_admissivel)]
      do_melhor(melhor) ==
        registro(melhor,
          calcula_tensao_axial_admissivel(melhor, forca_axial, tipo_barra,
            comprimento, DiametroFuro(tipo_barra), limitar_esbeltez_tracao,
            ~ limitar_esbeltez_tracao))
      dos_viaveis(perfis_viaveis) ==
        IF Len(perfis_viaveis) = 0
        THEN [perfil_escolhido |-> "NENHUM", area_bruta |-> 0, area_trabalho |-> 0]
        ELSE do_melhor(perfis_viaveis[MaisLeve(perfis_viaveis)])
  IN dos_viaveis(
       SelectSeq(df_perf, LAMBDA p :
         PerfilViavel(p, forca_axial, tipo_barra, comprimento,
                      dados_barra.alfa_graus, limitar_esbeltez_tracao,
                      ~ limitar_esbeltez_tracao)))

\* lines 567-601: which critical hypothesis governs ("t" tension, "c"
\* compression, "" when neither has a profile)
escolher_hipotese_critica(melhor_t, melhor_c) ==
  IF melhor_t.perfil_escolhido = melhor_c.perfil_escolhido
  THEN IF melhor_t.perfil_escolhido = "NENHUM" THEN ""
       ELSE IF melhor_t.area_trabalho >= melhor_c.area_trabalho THEN "t" ELSE "c"
  ELSE IF melhor_t.area_bruta >= melhor_c.area_bruta THEN "t" ELSE "c"

\* lines 617-699: the record of one critical hypothesis for the adopted profile
registro_hipotese(dados_perfil, forca_axial, dados_barra, nome_hipotese) ==
  LET tipo_barra == dados_barra.tipo
      comprimento == IF EhMontante(tipo_barra)
                     THEN dados_barra.comprimento_destravado
                     ELSE dados_barra.comprimento
      solicitacao == IF forca_axial > 0 THEN "tracao" ELSE "compressao"
      registro(va, lig) ==
        [perfil_escolhido |-> dados_perfil.Perfil,
         viavel |-> va.viavel,
         forca_axial |-> forca_axial,
         solicitacao |-> solicitacao,
         area_bruta |-> dados_perfil.A,
         taxa_trabalho |-> va.taxa_trabalho,
         forca_axial_admissivel |-> va.forca_axial_admissivel,
         Fa_reduzido |-> va.Fa_reduzido,
         ft_admissivel |-> va.ft_admissivel,
         tipo |-> tipo_barra,
         modulo |-> dados_barra.modulo,
         comprimento |-> dados_barra.comprimento,
         comprimento_destravado |-> comprimento,
         verificacao_ligacao |->
           [lig EXCEPT !.tx_lig = TaxaLigacao(Abs(forca_axial),
                                              lig.forca_adm_cisalhamento,
                                              lig.forca_adm_esmagamento)],
         simulada |-> nome_hipotese \in {"hip_0_t", "hip_0_c"},
         revalidacao |-> "",
         tx_trabalho |-> Nulo,
         tx_flexao |-> Nulo]
  IN registro(
       calcula_tensao_axial_admissivel(dados_perfil, forca_axial, tipo_barra,
         comprimento, DiametroFuro(tipo_barra), solicitacao = "tracao",
         solicitacao = "compressao"),
       dimensionar_ligacao(forca_axial, tipo_barra, dados_perfil.Perfil,
                           dados_perfil.t, obter_fu(dados_perfil)))

\* variant: max / min taken over the hypothesis names, without the key
hipotese_critica_sem_chave(esforcos, id, sinal) ==
  LET com == SelectSeq(esforcos, LAMBDA h :
               id \in DOMAIN h.barras /\ sinal * h.barras[id] > 0)
  IN IF Len(com) = 0 THEN "" ELSE com[Len(com)].nome

\* lines 341-345 / 347-351: name of the critical hypothesis of a member, ""
\* when it has none of that sign (max / min with key, first extreme wins)
hipotese_critica(esforcos, id, sinal) ==
  LET com == SelectSeq(esforcos, LAMBDA h :
               id \in DOMAIN h.barras /\ sinal * h.barras[id] > 0)
      k0 == CHOOSE k \in 1..Len(com) :
              /\ \A j \in 1..Len(com) : Abs(com[j].barras[id]) <= Abs(com[k].barras[id])
              /\ \A j \in 1..(k - 1) : Abs(com[j].barras[id]) < Abs(com[k].barras[id])
  IN IF Len(com) = 0 THEN "" ELSE com[k0].nome

\* lines 353-362: the missing critical hypotheses are simulated and written
\* into the caller's esforcos_por_hipotese
simular_hipoteses(esforcos, id) ==
  LET e1 == IF hipotese_critica(esforcos, id, 1) = ""
            THEN DefinirEsforco(esforcos, "hip_0_t", id, FORCA_AXIAL_SIMULADA_MINIMA)
            ELSE esforcos
  IN IF hipotese_critica(esforcos, id, 0 - 1) = ""
     THEN DefinirEsforco(e1, "hip_0_c", id, 0 - FORCA_AXIAL_SIMULADA_MINIMA)
     ELSE e1

\* the outcome of a failure under the dual policy
Falha == IF interromper_se_inviavel THEN "ValueError" ELSE "None"

Encerrar(resultado) ==
  /\ retorno' = resultado
  /\ pc' = "fim"

\* lines 322-719: one iteration of the loop over the members
DimensionarBarra ==
  /\ pc = "dimensionar"
  /\ UNCHANGED <<chamada, devolvido>>
  /\ pendentes # <<>>
  /\ LET id_barra == Head(pendentes)
         dados_barra == metadados_barras[id_barra]
         limitar == id_barra \in barras_exclusivamente_tracionadas
         gravar(esforcos, nome_t, nome_c, melhor_t, critica, perfil_final,
                reg_t, reg_c) ==
           LET entrada ==
                 [pior_caso |-> IF critica = "t" THEN nome_t ELSE nome_c,
                  pior_ligacao |->
                    IF reg_t.verificacao_ligacao.tx_lig
                         >= reg_c.verificacao_ligacao.tx_lig
                    THEN nome_t ELSE nome_c,
                  perfil_escolhido |-> perfil_final,
                  forcado_forca_simulada |->
                    (nome_t = "hip_0_t" \/ nome_c = "hip_0_c"),
                  hipotese_tracao |-> nome_t,
                  hipotese_compressao |-> nome_c,
                  hips |-> (nome_t :> reg_t) @@ (nome_c :> reg_c),
                  taxa_trabalho_final |-> Nulo,
                  tx_lig_final |-> Nulo]
           IN /\ esforcos_por_hipotese' = esforcos
              /\ IF interromper_se_inviavel /\ melhor_t.perfil_escolhido = "NENHUM"
                 THEN \* lines 554-556, reached right after the tension hypothesis
                      /\ Encerrar("ValueError")
                      /\ UNCHANGED <<resultado_final, pendentes>>
                 ELSE /\ resultado_final' =
                           IF critica = "" THEN resultado_final
                           ELSE (id_barra :> entrada) @@ resultado_final
                      /\ pendentes' = Tail(pendentes)
                      /\ pc' = IF Tail(pendentes) = <<>> THEN "perfis"
                               ELSE "dimensionar"
                      /\ UNCHANGED retorno
         registrar(esforcos, nome_t, nome_c, forca_t, forca_c, melhor_t, melhor_c) ==
           LET critica == escolher_hipotese_critica(melhor_t, melhor_c)
               perfil_final == IF critica = "t" THEN melhor_t.perfil_escolhido
                               ELSE melhor_c.perfil_escolhido
               dados_perfil ==
                 IF IndicePerfil(df_montantes, perfil_final) # 0
                 THEN PerfilPorNome(df_montantes, perfil_final)
                 ELSE PerfilPorNome(df_diagonais_horizontais, perfil_final)
           IN gravar(esforcos, nome_t, nome_c, melhor_t, critica, perfil_final,
                     registro_hipotese(dados_perfil, forca_t, dados_barra, nome_t),
                     registro_hipotese(dados_perfil, forca_c, dados_barra, nome_c))
         dimensionar(esforcos, nome_t, nome_c, forca_t, forca_c) ==
           registrar(esforcos, nome_t, nome_c, forca_t, forca_c,
                     melhor_da_hipotese(forca_t, dados_barra, limitar),
                     melhor_da_hipotese(forca_c, dados_barra, limitar))
         criticas(esforcos, nome_t, nome_c) ==
           dimensionar(esforcos, nome_t, nome_c,
                       Hipotese(esforcos, nome_t).barras[id_barra],
                       Hipotese(esforcos, nome_c).barras[id_barra])
         simuladas(esforcos) ==
           criticas(esforcos, hipotese_critica(esforcos, id_barra, 1),
                    hipotese_critica(esforcos, id_barra, 0 - 1))
     IN simuladas(simular_hipoteses(esforcos_por_hipotese, id_barra))
  /\ UNCHANGED <<estrutura, interromper_se_inviavel, metadados_barras,
                 ids_ligacao_necessaria, barras_exclusivamente_tracionadas,
                 ligacoes_forcadas, barras_reforcadas, tentativa>>

\* lines 721-740: members without profile abort; metadata receives the profile
\* of the governing hypothesis
AtualizarMetadados ==
  /\ pc = "perfis"
  /\ UNCHANGED <<chamada, devolvido>>
  /\ IF \E id \in DOMAIN resultado_final :
          resultado_final[id].perfil_escolhido = "NENHUM"
     THEN /\ Encerrar(Falha)
          /\ UNCHANGED metadados_barras
     ELSE /\ metadados_barras' =
               [id \in DOMAIN metadados_barras |->
                  IF id \in DOMAIN resultado_final
                  THEN [metadados_barras[id] EXCEPT !.perfil_escolhido =
                          resultado_final[id].hips[resultado_final[id].pior_caso]
                            .perfil_escolhido]
                  ELSE metadados_barras[id]]
          /\ pc' = "ligacoes"
          /\ UNCHANGED retorno
  /\ UNCHANGED <<estrutura, interromper_se_inviavel, esforcos_por_hipotese,
                 ids_ligacao_necessaria, barras_exclusivamente_tracionadas,
                 pendentes, resultado_final, ligacoes_forcadas,
                 barras_reforcadas, tentativa>>

(***************************************************************************)
(* utilitarios/ligacoes.py: otimizar_ligacoes_montantes_extremidades       *)
(***************************************************************************)
AcrescentarSeNovo(seq, x) ==
  IF \E i \in 1..Len(seq) : seq[i] = x THEN seq ELSE Append(seq, x)

\* lines 293-312: the keys (modulo, posicao, nivel_y) in order of creation
RECURSIVE ChavesDeGrupo(_, _, _)
ChavesDeGrupo(metadados, ids, chaves) ==
  IF ids = <<>> THEN chaves
  ELSE LET d == metadados[Head(ids)]
           c1 == IF EhMontanteComModulo(d) /\ d.base_modulo
                 THEN AcrescentarSeNovo(chaves, <<d.modulo, "base", d.y_min>>)
                 ELSE chaves
           c2 == IF EhMontanteComModulo(d) /\ (d.topo_modulo \/ d.topo_estrutura)
                 THEN AcrescentarSeNovo(c1, <<d.modulo, "topo", d.y_max>>)
                 ELSE c1
       IN ChavesDeGrupo(metadados, Tail(ids), c2)

\* variant: the groups hold the left legs only
BarrasDoGrupoSoEsquerda(metadados, chave) ==
  SelectSeq(Ordenados(DOMAIN metadados), LAMBDA id :
    LET d == metadados[id]
    IN /\ EhMontanteComModulo(d)
       /\ d.tipo = "montante_esq"
       /\ d.modulo = chave[1]
       /\ \/ chave[2] = "base" /\ d.base_modulo /\ d.y_min = chave[3]
          \/ /\ chave[2] = "topo"
             /\ (d.topo_modulo \/ d.topo_estrutura)
             /\ d.y_max = chave[3])

\* the members appended to one key, in metadata order
BarrasDoGrupo(metadados, chave) ==
  SelectSeq(Ordenados(DOMAIN metadados), LAMBDA id :
    LET d == metadados[id]
    IN /\ EhMontanteComModulo(d)
       /\ d.modulo = chave[1]
       /\ \/ chave[2] = "base" /\ d.base_modulo /\ d.y_min = chave[3]
          \/ /\ chave[2] = "topo"
             /\ (d.topo_modulo \/ d.topo_estrutura)
             /\ d.y_max = chave[3])

\* max(esforcos_por_barra[id], key=abs), of which only the magnitude is used
ForcaCritica(lista) == MaxDe({Abs(lista[i]) : i \in 1..Len(lista)})

\* {"ligacao_viavel": False, "np": None}
LigacaoMarca ==
  [forma |-> "marca", ligacao_viavel |-> FALSE, np |-> Nulo,
   forca_adm_cisalhamento |-> 0, forca_adm_esmagamento |-> 0, tx_lig |-> 0,
   fator_fp |-> Nulo, erro |-> ""]

\* max(ligacoes_candidatas.values(), key=(Fc, Fe)): the first maximum
MaisResistente(ligs) ==
  LET menor(a, b) ==
        \/ a.forca_adm_cisalhamento < b.forca_adm_cisalhamento
        \/ /\ a.forca_adm_cisalhamento = b.forca_adm_cisalhamento
           /\ a.forca_adm_esmagamento < b.forca_adm_esmagamento
      k0 == CHOOSE k \in 1..Len(ligs) :
              /\ \A j \in 1..Len(ligs) : ~ menor(ligs[k], ligs[j])
              /\ \A j \in 1..(k - 1) : menor(ligs[j], ligs[k])
  IN ligs[k0]

\* lines 399-437: the while loop for one candidate; the redesign is called
\* with the thickness read from the metadata, which has no "t" (0.0)
RECURSIVE AtenderCandidato(_, _, _, _, _)
AtenderCandidato(melhor_ligacao, forca_axial_critica, tipo, perfil_nome, fu) ==
  IF melhor_ligacao.erro # "" THEN melhor_ligacao
  ELSE IF /\ forca_axial_critica <= melhor_ligacao.forca_adm_cisalhamento
          /\ forca_axial_critica <= melhor_ligacao.forca_adm_esmagamento
       THEN melhor_ligacao
  ELSE IF melhor_ligacao.np = Nulo THEN melhor_ligacao
  ELSE IF melhor_ligacao.np + (IF EhMontante(tipo) THEN 2 ELSE 1)
            > limite_parafusos[TipoBase(tipo)]
       THEN melhor_ligacao
  ELSE AtenderCandidato(
         dimensionar_ligacao(forca_axial_critica, tipo, perfil_nome, 0, fu),
         forca_axial_critica, tipo, perfil_nome, fu)

RECURSIVE AtenderCandidatos(_, _, _, _, _, _)
AtenderCandidatos(melhor_ligacao, candidatos, metadados, esforcos, perfil_nome, fu) ==
  IF candidatos = <<>> THEN melhor_ligacao
  ELSE AtenderCandidatos(
         AtenderCandidato(melhor_ligacao,
                          ForcaCritica(EsforcosDaBarra(esforcos, Head(candidatos))),
                          metadados[Head(candidatos)].tipo, perfil_nome, fu),
         Tail(candidatos), metadados, esforcos, perfil_nome, fu)

\* lines 314-441 for one group: "nada" when no candidate could be designed,
\* otherwise the design given to every member of the group
ligacao_do_grupo(metadados, esforcos, ids_barra) ==
  LET projetar(candidatos, validos) ==
        LET ligacoes_candidatas ==
              [k \in 1..Len(validos) |->
                 LET linha == PerfilPorNome(df_perfis,
                                metadados[validos[k]].perfil_escolhido)
                 IN dimensionar_ligacao(
                      ForcaCritica(EsforcosDaBarra(esforcos, validos[k])),
                      metadados[validos[k]].tipo, linha.Perfil, linha.t,
                      obter_fu(linha))]
            \* perfil_nome and linha as the candidates loop left them
            perfil_nome == metadados[candidatos[Len(candidatos)]].perfil_escolhido
            linha == PerfilPorNome(df_perfis,
                       metadados[validos[Len(validos)]].perfil_escolhido)
            atender(melhor_ligacao) ==
              IF melhor_ligacao.np = Nulo THEN LigacaoMarca
              ELSE AtenderCandidatos(melhor_ligacao, candidatos, metadados,
                                     esforcos, perfil_nome, obter_fu(linha))
        IN IF Len(validos) = 0 THEN [LigacaoVazia EXCEPT !.forma = "nada"]
           ELSE atender(MaisResistente(ligacoes_candidatas))
      dos_candidatos(candidatos) ==
        projetar(candidatos,
          SelectSeq(candidatos, LAMBDA id :
            /\ metadados[id].perfil_escolhido \notin {"None", "NENHUM"}
            /\ IndicePerfil(df_perfis, metadados[id].perfil_escolhido) # 0))
  IN dos_candidatos(Ordenados({MaisTracionado(ids_barra, esforcos),
                               MaisComprimido(ids_barra, esforcos)}))

RECURSIVE AplicarGrupos(_, _, _, _)
AplicarGrupos(metadados, esforcos, chaves, acumulado) ==
  IF chaves = <<>> \/ acumulado.erro # "" THEN acumulado
  ELSE LET aplicar(ids_barra, lig) ==
             AplicarGrupos(metadados, esforcos, Tail(chaves),
               IF lig.forma = "nada" THEN acumulado
               ELSE IF lig.erro # "" THEN [acumulado EXCEPT !.erro = lig.erro]
               ELSE [acumulado EXCEPT
                       !.ligs = [id \in {ids_barra[k] : k \in 1..Len(ids_barra)}
                                   |-> lig] @@ acumulado.ligs])
           do_grupo(ids_barra) ==
             aplicar(ids_barra, ligacao_do_grupo(metadados, esforcos, ids_barra))
       IN do_grupo(BarrasDoGrupo(metadados, Head(chaves)))

\* [erro, ligs]: the exception raised, if any, and the returned dict
otimizar_ligacoes_montantes_extremidades(metadados, esforcos) ==
  AplicarGrupos(metadados, esforcos,
                ChavesDeGrupo(metadados, Ordenados(DOMAIN metadados), <<>>),
                [erro |-> "", ligs |-> [x \in {} |-> LigacaoMarca]])

\* lines 745-810: first optimizer call, abort on an infeasible extremity,
\* injection of the governing design into the governing hypothesis
LigacaoInjetada(lig, caso) ==
  LET linha == PerfilPorNome(df_perfis, caso.perfil_escolhido)
      forca_adm_esmagamento_corrigido ==
        ForcaAdmEsmagamento(lig.np, "montante", linha.t, lig.fator_fp,
                            obter_fu(linha))
  IN [lig EXCEPT
        !.forca_adm_esmagamento = forca_adm_esmagamento_corrigido,
        !.tx_lig = TaxaLigacao(Abs(caso.forca_axial), lig.forca_adm_cisalhamento,
                               forca_adm_esmagamento_corrigido)]

LigacoesDefinitivas ==
  /\ pc = "ligacoes"
  /\ UNCHANGED <<chamada, devolvido>>
  /\ LET injetar(otimo) ==
           IF otimo.erro # ""
           THEN /\ Encerrar(otimo.erro)
                /\ UNCHANGED <<ligacoes_forcadas, resultado_final>>
           ELSE IF \E id \in DOMAIN otimo.ligs : ~ otimo.ligs[id].ligacao_viavel
           THEN /\ Encerrar(Falha)
                /\ UNCHANGED <<ligacoes_forcadas, resultado_final>>
           ELSE /\ ligacoes_forcadas' = otimo.ligs
                /\ resultado_final' =
                     [id \in DOMAIN resultado_final |->
                        IF id \in DOMAIN otimo.ligs
                           /\ IndicePerfil(df_perfis,
                                resultado_final[id].hips[resultado_final[id].pior_caso]
                                  .perfil_escolhido) # 0
                        THEN LET nome == resultado_final[id].pior_caso
                             IN [resultado_final[id] EXCEPT
                                   !.hips[nome].verificacao_ligacao =
                                      LigacaoInjetada(otimo.ligs[id],
                                                      resultado_final[id].hips[nome])]
                        ELSE resultado_final[id]]
                /\ pc' = "igualar"
                /\ UNCHANGED retorno
     IN injetar(otimizar_ligacoes_montantes_extremidades(metadados_barras,
                                                         esforcos_por_hipotese))
  /\ UNCHANGED <<estrutura, interromper_se_inviavel, esforcos_por_hipotese,
                 metadados_barras, ids_ligacao_necessaria,
                 barras_exclusivamente_tracionadas, pendentes,
                 barras_reforcadas, tentativa>>

(***************************************************************************)
(* utilitarios/ferramentas_montantes.py: igualar_perfis_montantes_por_modulo *)
(***************************************************************************)
\* lines 185-218: one hypothesis record recomputed with the module's profile
registro_igualado(dados_hipotese, linha_final) ==
  LET atualizar(novos_dados) ==
        [dados_hipotese EXCEPT
           !.solicitacao = novos_dados.solicitacao,
           !.viavel = novos_dados.viavel,
           !.forca_axial_admissivel = novos_dados.forca_axial_admissivel,
           !.taxa_trabalho = novos_dados.taxa_trabalho,
           !.Fa_reduzido = novos_dados.Fa_reduzido,
           !.ft_admissivel = novos_dados.ft_admissivel,
           !.perfil_escolhido = linha_final.Perfil,
           !.area_bruta = linha_final.A]
  IN atualizar(
       calcula_tensao_axial_admissivel(linha_final, dados_hipotese.forca_axial,
         dados_hipotese.tipo, dados_hipotese.comprimento_destravado,
         diametros_furos.montante, dados_hipotese.forca_axial > 0,
         dados_hipotese.forca_axial < 0))

\* lines 142-155: the legs of the result that carry a module
MontantesDoResultado(resultados) ==
  SelectSeq(Ordenados(DOMAIN resultados), LAMBDA id :
    \E h \in DOMAIN resultados[id].hips :
       /\ EhMontante(resultados[id].hips[h].tipo)
       /\ resultados[id].hips[h].modulo # Nulo)

ModuloDaBarra(resultados, id) ==
  LET h == CHOOSE h \in DOMAIN resultados[id].hips :
             /\ EhMontante(resultados[id].hips[h].tipo)
             /\ resultados[id].hips[h].modulo # Nulo
  IN resultados[id].hips[h].modulo

\* variant: the row after the one of largest gross area is taken (a lookup by
\* position that is off by one)
MaiorPerfilDoModuloMaisUm(resultados, lista_barras) ==
  LET conhecidas == SelectSeq(lista_barras, LAMBDA id :
                      IndicePerfil(df_montantes, resultados[id].perfil_escolhido) # 0)
      area(k) == PerfilPorNome(df_montantes,
                               resultados[conhecidas[k]].perfil_escolhido).A
      k0 == CHOOSE k \in 1..Len(conhecidas) :
              /\ \A j \in 1..Len(conhecidas) : area(j) <= area(k)
              /\ \A j \in 1..(k - 1) : area(j) < area(k)
      seguinte(i) == IF i < Len(df_montantes) THEN i + 1 ELSE i
  IN IF Len(conhecidas) = 0 THEN 0
     ELSE seguinte(IndicePerfil(df_montantes,
                                resultados[conhecidas[k0]].perfil_escolhido))

\* lines 158-179: the member-level profile of largest gross area among the
\* legs of a module (first maximum), 0 when none is in df_montantes
MaiorPerfilDoModulo(resultados, lista_barras) ==
  LET conhecidas == SelectSeq(lista_barras, LAMBDA id :
                      IndicePerfil(df_montantes, resultados[id].perfil_escolhido) # 0)
      area(k) == PerfilPorNome(df_montantes,
                               resultados[conhecidas[k]].perfil_escolhido).A
      k0 == CHOOSE k \in 1..Len(conhecidas) :
              /\ \A j \in 1..Len(conhecidas) : area(j) <= area(k)
              /\ \A j \in 1..(k - 1) : area(j) < area(k)
  IN IF Len(conhecidas) = 0 THEN 0
     ELSE IndicePerfil(df_montantes, resultados[conhecidas[k0]].perfil_escolhido)

\* variant: no equalization
igualar_sem_efeito(resultados) == resultados

igualar_perfis_montantes_por_modulo(resultados) ==
  LET lista(montantes, m) ==
        SelectSeq(montantes, LAMBDA id : ModuloDaBarra(resultados, id) = m)
      atualizar(id, linha_final) ==
        [resultados[id] EXCEPT
           !.perfil_escolhido = linha_final.Perfil,
           !.hips = [h \in DOMAIN @ |-> registro_igualado(@[h], linha_final)]]
      da_barra(id, indice) ==
        IF indice # 0 THEN atualizar(id, df_montantes[indice]) ELSE resultados[id]
      igualar(montantes) ==
        [id \in DOMAIN resultados |->
           IF \E k \in 1..Len(montantes) : montantes[k] = id
           THEN da_barra(id, MaiorPerfilDoModulo(resultados,
                               lista(montantes, ModuloDaBarra(resultados, id))))
           ELSE resultados[id]]
  IN igualar(MontantesDoResultado(resultados))

\* line 815: first equalization
Igualar ==
  /\ pc = "igualar"
  /\ UNCHANGED <<chamada, devolvido>>
  /\ resultado_final' = igualar_perfis_montantes_por_modulo(resultado_final)
  /\ pc' = "reforco"
  /\ UNCHANGED <<estrutura, interromper_se_inviavel, esforcos_por_hipotese,
                 metadados_barras, ids_ligacao_necessaria,
                 barras_exclusivamente_tracionadas, pendentes, ligacoes_forcadas,
                 barras_reforcadas, tentativa, retorno>>

(***************************************************************************)
(* utilitarios/ferramentas_montantes.py: reforcar_montante_ate_viavel      *)
(***************************************************************************)
\* df.sort_values("A(cm2)").reset_index(drop=True)
OrdenarPorArea(tabela) ==
  [k \in 1..Len(tabela) |->
     tabela[CHOOSE i \in 1..Len(tabela) :
              Cardinality({j \in 1..Len(tabela) : tabela[j].A < tabela[i].A}) = k - 1]]

SemReforco(erro) ==
  [erro |-> erro, achou |-> FALSE, perfil |-> "NENHUM", lig |-> LigacaoVazia]

\* lines 658-696: the scan from idx on; both criteria are evaluated for every row
RECURSIVE PercorrerTabela(_, _, _, _, _, _, _)
PercorrerTabela(tabela, idx, forca_axial, tipo_barra, comprimento, angulo_graus, interromper) ==
  IF idx > Len(tabela)
  THEN SemReforco(IF interromper THEN "ValueError" ELSE "")
  ELSE LET avaliar(linha, melhor_lig, norma) ==
             IF melhor_lig.erro # "" THEN SemReforco(melhor_lig.erro)
             ELSE IF norma.erro # "" THEN SemReforco(norma.erro)
             ELSE IF melhor_lig.tx_lig <= 100 /\ norma.tx <= 100
                  THEN [erro |-> "", achou |-> TRUE, perfil |-> linha.Perfil,
                        lig |-> melhor_lig]
             ELSE PercorrerTabela(tabela, idx + 1, forca_axial, tipo_barra,
                                  comprimento, angulo_graus, interromper)
           da_linha(linha) ==
             avaliar(linha,
                     wrapper_ligacao_montante(linha, forca_axial, tipo_barra),
                     verificar_axial_flexao(linha, forca_axial, tipo_barra,
                                            comprimento, angulo_graus))
       IN da_linha(tabela[idx])

reforcar_montante_ate_viavel(perfil_atual, forca_axial, tipo_barra, comprimento, angulo_graus, interromper) ==
  LET a_partir_de(tabela, idx_atual) ==
        PercorrerTabela(tabela, IF idx_atual # 0 THEN idx_atual ELSE 1,
                        forca_axial, tipo_barra, comprimento, angulo_graus,
                        interromper)
      da_tabela(tabela) == a_partir_de(tabela, IndicePerfil(tabela, perfil_atual))
  IN da_tabela(OrdenarPorArea(
       filtrar_perfis_montante_reforco(df_perfis, diametros_furos.montante)))

(***************************************************************************)
(* dimensionamento.py, section 7-2: reinforcement cycles                   *)
(***************************************************************************)
\* lines 885-891: the first hypothesis record of largest tx_lig
PiorLigacao(dados) ==
  IF dados.hips[dados.hipotese_tracao].verificacao_ligacao.tx_lig
       >= dados.hips[dados.hipotese_compressao].verificacao_ligacao.tx_lig
  THEN dados.hipotese_tracao ELSE dados.hipotese_compressao

\* lines 832-879: the members of one cycle in sorted order
RECURSIVE PercorrerBarras(_, _, _, _)
PercorrerBarras(ids, metadados, interromper, acumulado) ==
  IF ids = <<>> \/ acumulado.erro # "" THEN acumulado
  ELSE LET id_barra == Head(ids)
           resultado == acumulado.resultado
       IN IF id_barra \notin DOMAIN resultado
             \/ resultado[id_barra].perfil_escolhido = "NENHUM"
          THEN PercorrerBarras(Tail(ids), metadados, interromper,
                               [acumulado EXCEPT !.todos_ok = FALSE])
          ELSE LET nome_hip == resultado[id_barra].pior_caso
                   caso == resultado[id_barra].hips[nome_hip]
                   dados == metadados[id_barra]
                   aplicar(reforco) ==
                     IF reforco.erro # ""
                     THEN [acumulado EXCEPT !.erro = reforco.erro]
                     ELSE IF reforco.achou
                     THEN [acumulado EXCEPT
                             !.resultado[id_barra].hips[nome_hip].perfil_escolhido =
                                reforco.perfil,
                             !.resultado[id_barra].hips[nome_hip].verificacao_ligacao =
                                reforco.lig,
                             !.ligacoes_iter = (id_barra :> reforco.lig) @@ @]
                     ELSE [acumulado EXCEPT !.todos_ok = FALSE]
               IN PercorrerBarras(Tail(ids), metadados, interromper,
                    aplicar(reforcar_montante_ate_viavel(
                              caso.perfil_escolhido, Abs(caso.forca_axial),
                              dados.tipo,
                              IF EhMontante(dados.tipo)
                              THEN dados.comprimento_destravado
                              ELSE dados.comprimento,
                              dados.alfa_graus, interromper)))

\* variant: a retry is taken as converged whatever its members did
CicloReforcoQueAceitaARepeticao ==
  /\ pc = "reforco"
  /\ UNCHANGED <<chamada, devolvido>>
  /\ tentativa < MAX_CICLOS_REFORCO
  /\ LET concluir(ciclo) ==
           IF ciclo.erro # ""
           THEN /\ Encerrar(ciclo.erro)
                /\ UNCHANGED <<resultado_final, ligacoes_forcadas,
                               barras_reforcadas, tentativa>>
           ELSE /\ resultado_final' =
                     [id \in DOMAIN resultado_final |->
                        IF id \in DOMAIN ciclo.ligacoes_iter
                        THEN [ciclo.resultado[id] EXCEPT
                                !.pior_ligacao = PiorLigacao(ciclo.resultado[id])]
                        ELSE ciclo.resultado[id]]
                /\ ligacoes_forcadas' = ciclo.ligacoes_iter @@ ligacoes_forcadas
                /\ barras_reforcadas' =
                     barras_reforcadas \cup DOMAIN ciclo.ligacoes_iter
                /\ tentativa' = tentativa + 1
                /\ pc' = IF ciclo.todos_ok \/ tentativa >= 1
                         THEN "revalidacao" ELSE "reforco"
                /\ UNCHANGED retorno
     IN concluir(PercorrerBarras(Ordenados(ids_ligacao_necessaria),
                   metadados_barras, interromper_se_inviavel,
                   [erro |-> "", resultado |-> resultado_final,
                    ligacoes_iter |-> [x \in {} |-> LigacaoVazia],
                    todos_ok |-> TRUE]))
  /\ UNCHANGED <<estrutura, interromper_se_inviavel, esforcos_por_hipotese,
                 metadados_barras, ids_ligacao_necessaria,
                 barras_exclusivamente_tracionadas, pendentes>>

\* lines 828-897: one pass of  for tentativa in range(10)
CicloReforco ==
  /\ pc = "reforco"
  /\ UNCHANGED <<chamada, devolvido>>
  /\ tentativa < MAX_CICLOS_REFORCO
  /\ LET concluir(ciclo) ==
           IF ciclo.erro # ""
           THEN /\ Encerrar(ciclo.erro)
                /\ UNCHANGED <<resultado_final, ligacoes_forcadas,
                               barras_reforcadas, tentativa>>
           ELSE /\ resultado_final' =
                     [id \in DOMAIN resultado_final |->
                        IF id \in DOMAIN ciclo.ligacoes_iter
                        THEN [ciclo.resultado[id] EXCEPT
                                !.pior_ligacao = PiorLigacao(ciclo.resultado[id])]
                        ELSE ciclo.resultado[id]]
                /\ ligacoes_forcadas' = ciclo.ligacoes_iter @@ ligacoes_forcadas
                /\ barras_reforcadas' =
                     barras_reforcadas \cup DOMAIN ciclo.ligacoes_iter
                /\ tentativa' = tentativa + 1
                /\ pc' = IF ciclo.todos_ok THEN "revalidacao" ELSE "reforco"
                /\ UNCHANGED retorno
     IN concluir(PercorrerBarras(Ordenados(ids_ligacao_necessaria),
                   metadados_barras, interromper_se_inviavel,
                   [erro |-> "", resultado |-> resultado_final,
                    ligacoes_iter |-> [x \in {} |-> LigacaoVazia],
                    todos_ok |-> TRUE]))
  /\ UNCHANGED <<estrutura, interromper_se_inviavel, esforcos_por_hipotese,
                 metadados_barras, ids_ligacao_necessaria,
                 barras_exclusivamente_tracionadas, pendentes>>

\* variant: the tenth cycle without convergence goes on to Step C
NaoConvergiuSegueParaRevalidacao ==
  /\ pc = "reforco"
  /\ UNCHANGED <<chamada, devolvido>>
  /\ tentativa = MAX_CICLOS_REFORCO
  /\ pc' = "revalidacao"
  /\ UNCHANGED <<estrutura, interromper_se_inviavel, esforcos_por_hipotese,
                 metadados_barras, ids_ligacao_necessaria,
                 barras_exclusivamente_tracionadas, pendentes, resultado_final,
                 ligacoes_forcadas, barras_reforcadas, tentativa, retorno>>

\* lines 899-902: the else of the for loop, reached when no cycle broke out
NaoConvergiu ==
  /\ pc = "reforco"
  /\ UNCHANGED <<chamada, devolvido>>
  /\ tentativa = MAX_CICLOS_REFORCO
  /\ Encerrar(Falha)
  /\ UNCHANGED <<estrutura, interromper_se_inviavel, esforcos_por_hipotese,
                 metadados_barras, ids_ligacao_necessaria,
                 barras_exclusivamente_tracionadas, pendentes, resultado_final,
                 ligacoes_forcadas, barras_reforcadas, tentativa>>

(***************************************************************************)
(* dimensionamento.py, sections 7-3 to 9                                   *)
(***************************************************************************)
\* lines 921-984: one hypothesis record of a reinforced member re-verified
registro_revalidado(dados_hip, id_barra, nome_hipotese, dados_barra, esforcos, exclusivamente_tracionadas) ==
  LET tipo_barra == dados_barra.tipo
      comprimento == IF EhMontante(tipo_barra)
                     THEN dados_barra.comprimento_destravado
                     ELSE dados_barra.comprimento
      forca_axial == Hipotese(esforcos, nome_hipotese).barras[id_barra]
      limitar_esbeltez_tracao == /\ id_barra \in exclusivamente_tracionadas
                                 /\ dados_hip.solicitacao = "tracao"
      revalidar(verificacao_axial, flexao_ok) ==
        IF ~ (verificacao_axial.viavel /\ flexao_ok)
        THEN [dados_hip EXCEPT !.viavel = FALSE,
                               !.revalidacao = "reprovada",
                               !.tx_flexao = IF flexao_ok THEN 0 ELSE 99900]
        ELSE [dados_hip EXCEPT !.viavel = TRUE,
                               !.revalidacao = "aprovada",
                               !.tx_trabalho = verificacao_axial.taxa_trabalho,
                               !.ft_admissivel = verificacao_axial.ft_admissivel,
                               !.Fa_reduzido = verificacao_axial.Fa_reduzido]
      do_perfil(dados_perfil) ==
        revalidar(
          calcula_tensao_axial_admissivel(dados_perfil, forca_axial, tipo_barra,
            comprimento, DiametroFuro(tipo_barra), limitar_esbeltez_tracao,
            ~ limitar_esbeltez_tracao),
          verifica_flexao_simples(tipo_barra, dados_barra.alfa_graus,
            comprimento, dados_perfil.Wx, obter_fy(dados_perfil)))
  IN IF dados_hip.perfil_escolhido = "NENHUM" THEN dados_hip
     ELSE do_perfil(PerfilPorNome(df_perfis, dados_hip.perfil_escolhido))

\* lines 904-984: standards re-verification of the reinforced members
Revalidacao ==
  /\ pc = "revalidacao"
  /\ UNCHANGED <<chamada, devolvido>>
  /\ LET reprovou(revalidado) ==
           \E id \in barras_reforcadas :
              \E h \in DOMAIN revalidado[id].hips :
                 revalidado[id].hips[h].revalidacao = "reprovada"
         concluir(revalidado) ==
           IF reprovou(revalidado) /\ interromper_se_inviavel
           THEN /\ Encerrar("ValueError")
                /\ UNCHANGED resultado_final
           ELSE /\ resultado_final' = revalidado
                /\ pc' = "igualar_final"
                /\ UNCHANGED retorno
     IN concluir(
          [id \in DOMAIN resultado_final |->
             IF id \in barras_reforcadas
             THEN [resultado_final[id] EXCEPT
                     !.hips = [h \in DOMAIN @ |->
                                 registro_revalidado(@[h], id, h,
                                   metadados_barras[id], esforcos_por_hipotese,
                                   barras_exclusivamente_tracionadas)]]
             ELSE resultado_final[id]])
  /\ UNCHANGED <<estrutura, interromper_se_inviavel, esforcos_por_hipotese,
                 metadados_barras, ids_ligacao_necessaria,
                 barras_exclusivamente_tracionadas, pendentes, ligacoes_forcadas,
                 barras_reforcadas, tentativa>>

\* lines 985-1009: second equalization, second optimizer call, whose designs
\* replace the connection of the governing hypothesis
IgualarFinal ==
  /\ pc = "igualar_final"
  /\ UNCHANGED <<chamada, devolvido>>
  /\ LET concluir(igualado, otimo) ==
           IF otimo.erro # ""
           THEN /\ Encerrar(otimo.erro)
                /\ UNCHANGED <<resultado_final, ligacoes_forcadas>>
           ELSE IF \E id \in DOMAIN otimo.ligs : id \notin DOMAIN igualado
           THEN /\ Encerrar("KeyError")
                /\ UNCHANGED <<resultado_final, ligacoes_forcadas>>
           ELSE /\ ligacoes_forcadas' = otimo.ligs
                /\ resultado_final' =
                     [id \in DOMAIN igualado |->
                        IF id \in DOMAIN otimo.ligs
                        THEN [igualado[id] EXCEPT
                                !.hips[igualado[id].pior_caso].verificacao_ligacao =
                                   otimo.ligs[id]]
                        ELSE igualado[id]]
                /\ pc' = "verificacao_final"
                /\ UNCHANGED retorno
     IN concluir(igualar_perfis_montantes_por_modulo(resultado_final),
                 otimizar_ligacoes_montantes_extremidades(metadados_barras,
                                                          esforcos_por_hipotese))
  /\ UNCHANGED <<estrutura, interromper_se_inviavel, esforcos_por_hipotese,
                 metadados_barras, ids_ligacao_necessaria,
                 barras_exclusivamente_tracionadas, pendentes,
                 barras_reforcadas, tentativa>>

\* utilitarios/geral.py; infinity is kept as the largest ratio
divisao_segura(numerador, denominador) ==
  IF denominador # 0 THEN Percentual(numerador, denominador) ELSE 999900

\* lines 1028-1134: final working ratios of one member
taxas_finais(dados) ==
  LET dados_perfil == PerfilPorNome(df_perfis, dados.perfil_escolhido)
      primeiro == dados.hips[dados.hipotese_tracao]
      forca_normal_tracao == dados.hips[dados.hipotese_tracao].forca_axial
      forca_normal_compressao == dados.hips[dados.hipotese_compressao].forca_axial
      forca_admissivel_tracao ==
        calcula_tensao_axial_admissivel(dados_perfil, forca_normal_tracao,
          primeiro.tipo, primeiro.comprimento_destravado,
          DiametroFuro(primeiro.tipo), TRUE, FALSE).forca_axial_admissivel
      forca_admissivel_compressao ==
        calcula_tensao_axial_admissivel(dados_perfil, forca_normal_compressao,
          primeiro.tipo, primeiro.comprimento_destravado,
          DiametroFuro(primeiro.tipo), FALSE, TRUE).forca_axial_admissivel
      taxa(forca, admissivel) ==
        IF admissivel = Nulo \/ admissivel = 0 THEN 0
        ELSE Percentual(Abs(forca), admissivel)
      lig == dados.hips[dados.pior_ligacao].verificacao_ligacao
      tx_lig(forca) ==
        MaxInt(divisao_segura(Abs(forca), lig.forca_adm_cisalhamento),
               divisao_segura(Abs(forca), lig.forca_adm_esmagamento))
  IN IF dados.perfil_escolhido = "NENHUM"
        \/ IndicePerfil(df_perfis, dados.perfil_escolhido) = 0
     THEN dados
     ELSE [dados EXCEPT
             !.taxa_trabalho_final =
                MaxInt(taxa(forca_normal_tracao, forca_admissivel_tracao),
                       taxa(forca_normal_compressao, forca_admissivel_compressao)),
             !.tx_lig_final =
                IF lig.forma = "vazia" THEN @
                ELSE MaxInt(tx_lig(forca_normal_tracao),
                            tx_lig(forca_normal_compressao))]

\* lines 1011-1137: abortive check of the connections, final ratios, return
VerificacaoFinal ==
  /\ pc = "verificacao_final"
  /\ UNCHANGED <<chamada, devolvido>>
  /\ IF \E id \in ids_ligacao_necessaria : id \notin DOMAIN resultado_final
     THEN /\ Encerrar("KeyError")
          /\ UNCHANGED resultado_final
     ELSE IF \E id \in ids_ligacao_necessaria :
               resultado_final[id].hips[resultado_final[id].pior_ligacao]
                 .verificacao_ligacao.tx_lig > 100
     THEN /\ Encerrar(Falha)
          /\ UNCHANGED resultado_final
     ELSE /\ resultado_final' =
               [id \in DOMAIN resultado_final |-> taxas_finais(resultado_final[id])]
          /\ Encerrar("resultado")
  /\ UNCHANGED <<estrutura, interromper_se_inviavel, esforcos_por_hipotese,
                 metadados_barras, ids_ligacao_necessaria,
                 barras_exclusivamente_tracionadas, pendentes, ligacoes_forcadas,
                 barras_reforcadas, tentativa>>

Next ==
  \/ Preparacao
  \/ DimensionarBarra
  \/ AtualizarMetadados
  \/ LigacoesDefinitivas
  \/ Igualar
  \/ CicloReforco
  \/ NaoConvergiu
  \/ Revalidacao
  \/ IgualarFinal
  \/ VerificacaoFinal

Spec == Init /\ [][Next]_vars

(***************************************************************************)
(* Properties                                                              *)
(***************************************************************************)
BarrasDasHipoteses ==
  UNION {DOMAIN esforcos_por_hipotese[h].barras :
           h \in 1..Len(esforcos_por_hipotese)}

MontantesNoResultado ==
  {id \in DOMAIN resultado_final : EhMontante(metadados_barras[id].tipo)}

\* C1: with hard-stop disabled, every returned result has an entry with a
\* chosen profile other than "NENHUM" for every member id of the input
\* hypotheses; a member without any viable critical hypothesis makes the run
\* return (None, None, None) instead of a result that omits it.
C1_TodaBarraTemPerfil ==
  (~ interromper_se_inviavel /\ retorno = "resultado") =>
     \A id \in BarrasDasHipoteses :
        /\ id \in DOMAIN resultado_final
        /\ resultado_final[id].perfil_escolhido # "NENHUM"

\* the two sweeps of the member being sized, over the forces as the step
\* leaves them (simulated hypotheses included)
SweepTracao ==
  LET id == Head(pendentes)
      esf == esforcos_por_hipotese'
  IN melhor_da_hipotese(Hipotese(esf, hipotese_critica(esf, id, 1)).barras[id],
                        metadados_barras[id],
                        id \in barras_exclusivamente_tracionadas)

SweepCompressao ==
  LET id == Head(pendentes)
      esf == esforcos_por_hipotese'
  IN melhor_da_hipotese(Hipotese(esf, hipotese_critica(esf, id, 0 - 1)).barras[id],
                        metadados_barras[id],
                        id \in barras_exclusivamente_tracionadas)

\* C2: a member is rejected only if neither critical hypothesis produced a
\* profile: in hard-stop mode the sizing of a member raises exactly when both
\* sweeps end as "NENHUM", and when exactly one of them is "NENHUM" the
\* profile of the other is adopted, in both modes.
C2_RejeitadaSoSeAmbasNenhum ==
  [][(pc = "dimensionar" /\ pendentes # <<>>) =>
       LET sem_t == SweepTracao.perfil_escolhido = "NENHUM"
           sem_c == SweepCompressao.perfil_escolhido = "NENHUM"
           id == Head(pendentes)
       IN /\ interromper_se_inviavel =>
               ((retorno' = "ValueError") <=> (sem_t /\ sem_c))
          /\ (sem_t /\ ~ sem_c) =>
               /\ id \in DOMAIN resultado_final'
               /\ resultado_final'[id].perfil_escolhido =
                    SweepCompressao.perfil_escolhido
          /\ (sem_c /\ ~ sem_t) =>
               /\ id \in DOMAIN resultado_final'
               /\ resultado_final'[id].perfil_escolhido =
                    SweepTracao.perfil_escolhido]_vars

\* the force the reinforcement of a member works with: the governing
\* hypothesis of a sized member, the peak force of a member left unsized
ForcaDeReforco(id) ==
  IF id \in DOMAIN resultado_final
  THEN Abs(resultado_final[id].hips[resultado_final[id].pior_caso].forca_axial)
  ELSE ForcaCritica(EsforcosDaBarra(esforcos_por_hipotese, id))

\* no row of the reinforcement catalog passes the connection check and the
\* axial+bending check for the member
SemPerfilCompativel(id) ==
  LET tabela == filtrar_perfis_montante_reforco(df_perfis, diametros_furos.montante)
      dados == metadados_barras[id]
  IN \A k \in 1..Len(tabela) :
       LET lig == wrapper_ligacao_montante(tabela[k], ForcaDeReforco(id), dados.tipo)
           norma == verificar_axial_flexao(tabela[k], ForcaDeReforco(id),
                      dados.tipo, dados.comprimento_destravado, dados.alfa_graus)
       IN ~ (lig.erro = "" /\ norma.erro = ""
             /\ lig.tx_lig <= 100 /\ norma.tx <= 100)

\* C3: with hard-stop disabled, if some connection-required member has no
\* catalog profile satisfying both the connection check and the axial+bending
\* check, the run returns (None, None, None) and raises no exception,
\* whatever the catalog holds (profiles rejected for slenderness included).
C3_SemCompativelRetornaNone ==
  ( /\ ~ interromper_se_inviavel
    /\ pc = "fim"
    /\ \E id \in ids_ligacao_necessaria : SemPerfilCompativel(id) )
  => retorno = "None"

\* some hypothesis record of a reinforced member fails the re-verification
ReprovaNaRevalidacao ==
  \E id \in barras_reforcadas :
     \E h \in DOMAIN resultado_final[id].hips :
        registro_revalidado(resultado_final[id].hips[h], id, h,
                            metadados_barras[id], esforcos_por_hipotese,
                            barras_exclusivamente_tracionadas).revalidacao
          = "reprovada"

\* C4: when the re-verification after reinforcement (Step C) finds that a
\* reinforced member fails the axial or the bending check in some hypothesis,
\* the run fails under the dual policy: an error in hard-stop mode,
\* (None, None, None) otherwise, never a result holding the failing record.
C4_RegressaoFalhaACorrida ==
  [][(pc = "revalidacao" /\ ReprovaNaRevalidacao) =>
       (pc' = "fim" /\ retorno' = Falha)]_vars

\* a reinforcement cycle in which no connection-required member fails
CicloSemFalha ==
  \A id \in ids_ligacao_necessaria :
     /\ id \in DOMAIN resultado_final
     /\ resultado_final[id].perfil_escolhido # "NENHUM"
     /\ LET caso == resultado_final[id].hips[resultado_final[id].pior_caso]
            dados == metadados_barras[id]
        IN reforcar_montante_ate_viavel(caso.perfil_escolhido,
             Abs(caso.forca_axial), dados.tipo, dados.comprimento_destravado,
             dados.alfa_graus, interromper_se_inviavel).achou

C6_SemLigacaoInviavelEmMontante ==
  retorno = "resultado" =>
     /\ \A id \in MontantesNoResultado :
          \A h \in DOMAIN resultado_final[id].hips :
             resultado_final[id].hips[h].verificacao_ligacao.ligacao_viavel
     /\ \A id \in DOMAIN ligacoes_forcadas : ligacoes_forcadas[id].ligacao_viavel

\* C7: in every returned result all leg members of a module have the same
\* chosen profile, in the member-level field and in each hypothesis record.
C7_PerfilUnicoPorModulo ==
  retorno = "resultado" =>
     \A a \in MontantesNoResultado, b \in MontantesNoResultado :
        metadados_barras[a].modulo = metadados_barras[b].modulo =>
           /\ resultado_final[a].perfil_escolhido = resultado_final[b].perfil_escolhido
           /\ \A h \in DOMAIN resultado_final[a].hips :
                 resultado_final[a].hips[h].perfil_escolhido
                   = resultado_final[b].perfil_escolhido

\* a result whose legs had been sized with different profiles
C7_PerfisDiferentesIgualados ==
  /\ retorno = "resultado"
  /\ \E a \in MontantesNoResultado, b \in MontantesNoResultado :
        /\ metadados_barras[a].modulo = metadados_barras[b].modulo
        /\ metadados_barras[a].perfil_escolhido # metadados_barras[b].perfil_escolhido

\* C8: whenever the extremity optimizer records a feasible governing design
\* for a group, its admissible shear and bearing forces are at least the peak
\* absolute force of the most-tensioned and of the most-compressed member.
C8_ProjetoCobreOsCriticos ==
  pc = "ligacoes" =>
     LET chaves == ChavesDeGrupo(metadados_barras,
                                 Ordenados(DOMAIN metadados_barras), <<>>)
         cobre(ids_barra, lig) ==
           (lig.forma = "completa" /\ lig.erro = "" /\ lig.ligacao_viavel) =>
              \A c \in {MaisTracionado(ids_barra, esforcos_por_hipotese),
                        MaisComprimido(ids_barra, esforcos_por_hipotese)} :
                 LET pico == ForcaCritica(EsforcosDaBarra(esforcos_por_hipotese, c))
                 IN /\ pico <= lig.forca_adm_cisalhamento
                    /\ pico <= lig.forca_adm_esmagamento
         do_grupo(ids_barra) ==
           cobre(ids_barra, ligacao_do_grupo(metadados_barras,
                                             esforcos_por_hipotese, ids_barra))
     IN \A k \in 1..Len(chaves) :
          do_grupo(BarrasDoGrupo(metadados_barras, chaves[k]))

\* the connection-required members before the mirror expansion
IdsOriginais ==
  identificar_montantes_com_ligacao(metadados_barras,
    SelectSeq(esforcos_por_hipotese, LAMBDA h :
      \E i \in 1..Len(HipotesesReais) : HipotesesReais[i] = h.nome))

\* C9: in every returned result each member added by the mirror expansion has
\* a connection design equal field for field to that of the member it
\* mirrors, also when a member is in the base group and in the top group.
C9_EspelhoTemMesmaLigacao ==
  retorno = "resultado" =>
     \A a \in ids_ligacao_necessaria \ IdsOriginais :
        \A m \in Simetricos(metadados_barras, a) \cap IdsOriginais :
           /\ a \in DOMAIN ligacoes_forcadas
           /\ m \in DOMAIN ligacoes_forcadas
           /\ ligacoes_forcadas[a] = ligacoes_forcadas[m]

\* C10: in every returned result the connection-design mapping has an entry
\* for every member of the returned connection-required set.
C10_LigacaoParaCadaNecessaria ==
  retorno = "resultado" => ids_ligacao_necessaria \subseteq DOMAIN ligacoes_forcadas

\* a result whose connection-required set holds a member added as a mirror
C10_ResultadoComEspelho ==
  /\ retorno = "resultado"
  /\ ids_ligacao_necessaria \ IdsOriginais # {}

(***************************************************************************)
(* Direct calls of dimensionar_ligacao (utilitarios/ligacoes.py) with the  *)
(* configuration above: one call per behaviour, the arguments drawn from   *)
(* the sets below.  Forces are in 0.01 kgf, thicknesses in mm.             *)
(***************************************************************************)
ForcasDeLigacao ==
  { 0, 1, 0 - 1, 150000, 180000, 300000, 0 - 300000, 400000, 760000,
    1000000, 0 - 1500000, 1600000 }

TiposDeBarra == {"montante_esq", "montante_dir", "diagonal", "horizontal"}

\* the names of the table and one name that is not in it
PerfisDeLigacao == NomesPerfis \cup {"L99x9"}

EspessurasDeLigacao == {0, 3, 5, 7}

InitLigacao ==
  /\ chamada \in [funcao : {"dimensionar_ligacao"},
                  forca_axial : ForcasDeLigacao,
                  tipo_barra : TiposDeBarra,
                  perfil_nome : PerfisDeLigacao,
                  espessura_aba : EspessurasDeLigacao]
  /\ devolvido = SemChamada
  /\ estrutura = "D2"
  /\ interromper_se_inviavel = FALSE
  /\ esforcos_por_hipotese = <<>>
  /\ metadados_barras = SemEntradas
  /\ ids_ligacao_necessaria = {}
  /\ barras_exclusivamente_tracionadas = {}
  /\ pendentes = <<>>
  /\ resultado_final = SemEntradas
  /\ ligacoes_forcadas = SemEntradas
  /\ barras_reforcadas = {}
  /\ tentativa = 0
  /\ pc = "chamada"
  /\ retorno = "pendente"

\* the call: the record returned, or the exception raised in its erro field
ChamarLigacao ==
  /\ pc = "chamada"
  /\ chamada.funcao = "dimensionar_ligacao"
  /\ devolvido' = dimensionar_ligacao(chamada.forca_axial, chamada.tipo_barra,
                     chamada.perfil_nome, chamada.espessura_aba, df_materiais.fu)
  /\ pc' = "devolvida"
  /\ UNCHANGED <<estrutura, interromper_se_inviavel, esforcos_por_hipotese,
                 metadados_barras, ids_ligacao_necessaria,
                 barras_exclusivamente_tracionadas, pendentes, resultado_final,
                 ligacoes_forcadas, barras_reforcadas, tentativa, retorno,
                 chamada>>

NextLigacao == ChamarLigacao

SpecLigacao == InitLigacao /\ [][NextLigacao]_vars

LigacaoDevolvida == pc = "devolvida" /\ devolvido.erro = ""

\* C11: the record returned by dimensionar_ligacao is either feasible with a
\* utilization of at most 1.0 and the force within the admissible shear and
\* bearing forces it reports, or infeasible with both admissible forces 0,
\* utilization 999 and no bolt count.
C11_ViavelOuInviavelExato ==
  LigacaoDevolvida =>
    \/ /\ devolvido.ligacao_viavel
       /\ devolvido.tx_lig <= 100
       /\ Abs(chamada.forca_axial) <= devolvido.forca_adm_cisalhamento
       /\ Abs(chamada.forca_axial) <= devolvido.forca_adm_esmagamento
    \/ /\ ~ devolvido.ligacao_viavel
       /\ devolvido.forca_adm_cisalhamento = 0
       /\ devolvido.forca_adm_esmagamento = 0
       /\ devolvido.tx_lig = 99900
       /\ devolvido.np = Nulo

\* a force that no bolt count of the class carries came back as infeasible
C11_ForcaAcimaDeTodaCapacidade ==
  /\ LigacaoDevolvida
  /\ ~ devolvido.ligacao_viavel
  /\ Abs(chamada.forca_axial)
       > ForcaAdmCisalhamento(limite_parafusos[TipoBase(chamada.tipo_barra)],
                              TipoBase(chamada.tipo_barra))

\* lines 64-75: the first bolt count tried for the class
NpMinimoDaChamada ==
  IF TipoBase(chamada.tipo_barra) # "montante" THEN 1
  ELSE IF IndicePerfil(df_perfis, chamada.perfil_nome) = 0 THEN 4
  ELSE PerfilPorNome(df_perfis, chamada.perfil_nome).NpMin

\* C12: a feasible design has a bolt count between the minimum of the class
\* (the profile's minimum for legs, 1 otherwise) and the maximum of the class,
\* and an even one for a leg.
C12_ParafusosDentroDosLimites ==
  (LigacaoDevolvida /\ devolvido.ligacao_viavel) =>
    /\ devolvido.np >= NpMinimoDaChamada
    /\ devolvido.np <= limite_parafusos[TipoBase(chamada.tipo_barra)]
    /\ (EhMontante(chamada.tipo_barra) => devolvido.np % 2 = 0)

\* a leg whose force exceeds the shear capacity of its minimum bolt count and
\* of the odd count after it was given the next even count
C12_MontantePulouImpar ==
  /\ LigacaoDevolvida
  /\ devolvido.ligacao_viavel
  /\ EhMontante(chamada.tipo_barra)
  /\ Abs(chamada.forca_axial) > ForcaAdmCisalhamento(NpMinimoDaChamada, "montante")
  /\ Abs(chamada.forca_axial) <= ForcaAdmCisalhamento(NpMinimoDaChamada + 1, "montante")
  /\ devolvido.np = NpMinimoDaChamada + 2

\* C13: dimensionar_ligacao never raises; every call returns a record.
C13_NuncaLevanta == pc = "devolvida" => devolvido.erro = ""

\* line 77-80: a bolt count the loop of the call tries
NpAdmissivel(np) ==
  /\ np \in NpMinimoDaChamada..limite_parafusos[TipoBase(chamada.tipo_barra)]
  /\ (EhMontante(chamada.tipo_barra) => np % 2 = 0)

\* lines 83-87: the force of the call is within the shear capacity of np bolts
CisalhamentoPassa(np) ==
  Abs(chamada.forca_axial)
    <= ForcaAdmCisalhamento(np, TipoBase(chamada.tipo_barra))

\* lines 90-102: the bearing stress of the call is within the admissible one
\* for np bolts and the k-th bearing factor
EsmagamentoPassa(np, k) ==
  Abs(chamada.forca_axial)
    <= ForcaAdmEsmagamento(np, TipoBase(chamada.tipo_barra),
                           chamada.espessura_aba, fatores_esmagamento[k],
                           df_materiais.fu)

\* C25: a feasible design has the smallest admissible bolt count for which the
\* shear check passes and some bearing factor passes, and, for that count,
\* the first bearing factor of the list that passes: no earlier pair of bolt
\* count and bearing factor satisfies both checks.
C25_PrimeiroParQueAtende ==
  (LigacaoDevolvida /\ devolvido.ligacao_viavel) =>
    /\ NpAdmissivel(devolvido.np)
    /\ CisalhamentoPassa(devolvido.np)
    /\ \E k \in 1..Len(fatores_esmagamento) :
         /\ fatores_esmagamento[k] = devolvido.fator_fp
         /\ EsmagamentoPassa(devolvido.np, k)
         /\ \A j \in 1..(k - 1) : ~ EsmagamentoPassa(devolvido.np, j)
    /\ \A np \in 1..(devolvido.np - 1) :
         NpAdmissivel(np) =>
           ~ (/\ CisalhamentoPassa(np)
              /\ \E k \in 1..Len(fatores_esmagamento) : EsmagamentoPassa(np, k))

\* a design that went past a bolt count whose shear check passed, and that
\* the first bearing factor carries
C25_EsmagamentoPediuMaisParafusos ==
  /\ LigacaoDevolvida
  /\ devolvido.ligacao_viavel
  /\ devolvido.np > NpMinimoDaChamada
  /\ CisalhamentoPassa(NpMinimoDaChamada)
  /\ devolvido.fator_fp = fatores_esmagamento[1]
  /\ EsmagamentoPassa(devolvido.np, 2)

(***************************************************************************)
(* Properties of the profile sweep and of the stages after it              *)
(***************************************************************************)
\* the profiles whose note forbids the use as a leg
PerfisVedadosAMontante ==
  {tabela_perfis[i].Perfil : i \in {j \in 1..Len(tabela_perfis) :
                                      tabela_perfis[j].Notas = NotaNaoMontante}}

\* C14: a profile whose note forbids the use as a leg is never the chosen
\* profile of a leg, at the member level, in a hypothesis record or in the
\* metadata, at any stage of the run.
C14_MontanteSemPerfilVedado ==
  \A id \in MontantesNoResultado :
     /\ resultado_final[id].perfil_escolhido \notin PerfisVedadosAMontante
     /\ metadados_barras[id].perfil_escolhido \notin PerfisVedadosAMontante
     /\ \A h \in DOMAIN resultado_final[id].hips :
          resultado_final[id].hips[h].perfil_escolhido \notin PerfisVedadosAMontante

\* a leg was sized with a profile heavier than a forbidden one that passes
\* every check of the sweep for one of its critical hypotheses
C14_VedadoSeriaMaisLeve ==
  \E id \in MontantesNoResultado :
    \E h \in DOMAIN resultado_final[id].hips :
      \E i \in 1..Len(tabela_perfis) :
        /\ tabela_perfis[i].Perfil \in PerfisVedadosAMontante
        /\ resultado_final[id].perfil_escolhido \in NomesPerfis
        /\ tabela_perfis[i].Peso
             < PerfilPorNome(df_perfis, resultado_final[id].perfil_escolhido).Peso
        /\ PerfilViavel(tabela_perfis[i], resultado_final[id].hips[h].forca_axial,
                        metadados_barras[id].tipo,
                        metadados_barras[id].comprimento_destravado,
                        metadados_barras[id].alfa_graus,
                        id \in barras_exclusivamente_tracionadas,
                        id \notin barras_exclusivamente_tracionadas)

\* the member whose turn it is in the loop of section 2, the forces as lines
\* 353-362 leave them, and its two critical forces (sinal 1 tension, -1
\* compression)
BarraDaVez == Head(pendentes)

EsforcosDaVez == simular_hipoteses(esforcos_por_hipotese, BarraDaVez)

ForcaDaVez(sinal) ==
  Hipotese(EsforcosDaVez, hipotese_critica(EsforcosDaVez, BarraDaVez, sinal))
    .barras[BarraDaVez]

ComprimentoDaVez ==
  IF EhMontante(metadados_barras[BarraDaVez].tipo)
  THEN metadados_barras[BarraDaVez].comprimento_destravado
  ELSE metadados_barras[BarraDaVez].comprimento

\* lines 385-395: the catalog swept for the member
CatalogoDaVez ==
  filtrar_por_diametro_parafuso(
    IF EhMontante(metadados_barras[BarraDaVez].tipo) THEN df_montantes
    ELSE df_diagonais_horizontais,
    DiametroFuro(metadados_barras[BarraDaVez].tipo))

\* lines 405-552: the selection of one critical hypothesis
VarreduraDaVez(sinal) ==
  melhor_da_hipotese(ForcaDaVez(sinal), metadados_barras[BarraDaVez],
                     BarraDaVez \in barras_exclusivamente_tracionadas)

\* lines 434-445: the axial utilization of a row in the sweep, in percent
TaxaAxialNaVarredura(dados_perfil, sinal) ==
  calcula_tensao_axial_admissivel(dados_perfil, ForcaDaVez(sinal),
    metadados_barras[BarraDaVez].tipo, ComprimentoDaVez,
    DiametroFuro(metadados_barras[BarraDaVez].tipo),
    BarraDaVez \in barras_exclusivamente_tracionadas,
    BarraDaVez \notin barras_exclusivamente_tracionadas).taxa_trabalho

PassaOsDemaisCriterios(dados_perfil, sinal) ==
  PerfilViavelSemLimiteDeTaxa(dados_perfil, ForcaDaVez(sinal),
    metadados_barras[BarraDaVez].tipo, ComprimentoDaVez,
    metadados_barras[BarraDaVez].alfa_graus,
    BarraDaVez \in barras_exclusivamente_tracionadas,
    BarraDaVez \notin barras_exclusivamente_tracionadas)

\* C15: in the sweep, the profile selected for a critical hypothesis of a
\* diagonal or horizontal has an axial utilization of at most 0.90 for that
\* hypothesis, whatever else passes; for a leg the 0.90 limit plays no part:
\* the selection is a lightest row among those passing the other checks.
C15_LimiteDeTaxaSoEmDiagonais ==
  (pc = "dimensionar" /\ pendentes # <<>>) =>
    \A sinal \in {1, 0 - 1} :
      LET selecionado(v) ==
            IF ~ EhMontante(metadados_barras[BarraDaVez].tipo)
            THEN v.perfil_escolhido # "NENHUM" =>
                   TaxaAxialNaVarredura(
                     PerfilPorNome(CatalogoDaVez, v.perfil_escolhido), sinal)
                     <= LIMITE_TAXA_TRABALHO_DIAG_HORIZ
            ELSE \A i \in 1..Len(CatalogoDaVez) :
                   PassaOsDemaisCriterios(CatalogoDaVez[i], sinal) =>
                     /\ v.perfil_escolhido # "NENHUM"
                     /\ PerfilPorNome(CatalogoDaVez, v.perfil_escolhido).Peso
                          <= CatalogoDaVez[i].Peso
      IN selecionado(VarreduraDaVez(sinal))

\* a row of the catalog of a diagonal passes every other check with an axial
\* utilization above 0.90 and is lighter than the selected profile
C15_DiagonalAcimaDoLimiteRejeitada ==
  /\ pc = "dimensionar"
  /\ pendentes # <<>>
  /\ ~ EhMontante(metadados_barras[BarraDaVez].tipo)
  /\ \E sinal \in {1, 0 - 1} :
       \E i \in 1..Len(CatalogoDaVez) :
          /\ PassaOsDemaisCriterios(CatalogoDaVez[i], sinal)
          /\ TaxaAxialNaVarredura(CatalogoDaVez[i], sinal)
               > LIMITE_TAXA_TRABALHO_DIAG_HORIZ
          /\ VarreduraDaVez(sinal).perfil_escolhido # CatalogoDaVez[i].Perfil
          /\ (VarreduraDaVez(sinal).perfil_escolhido # "NENHUM" =>
                PerfilPorNome(CatalogoDaVez,
                              VarreduraDaVez(sinal).perfil_escolhido).Peso
                  > CatalogoDaVez[i].Peso)

\* the sweeps of the member of the turn selected two different profiles
PerfisDiferentesNaVez ==
  /\ pc = "dimensionar"
  /\ pendentes # <<>>
  /\ VarreduraDaVez(1).perfil_escolhido # "NENHUM"
  /\ VarreduraDaVez(0 - 1).perfil_escolhido # "NENHUM"
  /\ VarreduraDaVez(1).perfil_escolhido # VarreduraDaVez(0 - 1).perfil_escolhido

\* lines 617-699: the record of a critical hypothesis passes the axial check
\* and the connection check of the final re-verification
RegistroAprovado(registro) ==
  /\ registro.viavel
  /\ registro.verificacao_ligacao.ligacao_viavel
  /\ registro.verificacao_ligacao.tx_lig <= 100

\* C16: when the two critical hypotheses of a member select different
\* profiles, the profile kept passes the axial and connection checks of the
\* final re-verification for both critical hypotheses, or else the member is
\* marked "NENHUM".
C16_PerfilMantidoPassaNasDuas ==
  [][PerfisDiferentesNaVez =>
       /\ BarraDaVez \in DOMAIN resultado_final'
       /\ \/ resultado_final'[BarraDaVez].perfil_escolhido = "NENHUM"
          \/ \A h \in DOMAIN resultado_final'[BarraDaVez].hips :
                RegistroAprovado(resultado_final'[BarraDaVez].hips[h])]_vars

\* the forces of the member of the turn in the hypotheses of the caller
ForcasReaisDaVez == EsforcosDaBarra(esforcos_por_hipotese, BarraDaVez)

TemForcaDeSinal(sinal) ==
  \E i \in 1..Len(ForcasReaisDaVez) : sinal * ForcasReaisDaVez[i] > 0

\* C17: the critical hypotheses of a member are the one of largest positive
\* force and the one of most negative force; where no hypothesis has a force
\* of a sign, a simulated hypothesis of +0.01 (-0.01) takes its place, so a
\* member with force 0 everywhere gets both; the member's flag of simulated
\* force is set exactly when at least one simulated hypothesis was added.
C17_CriticasESimuladas ==
  [][(pc = "dimensionar" /\ pendentes # <<>>
        /\ BarraDaVez \in DOMAIN resultado_final') =>
       LET r == resultado_final'[BarraDaVez]
           critica(sinal, nome, simulada) ==
             IF TemForcaDeSinal(sinal)
             THEN /\ TemHipotese(esforcos_por_hipotese, nome)
                  /\ sinal * Hipotese(esforcos_por_hipotese, nome).barras[BarraDaVez]
                       = MaxSeq([i \in 1..Len(ForcasReaisDaVez) |->
                                   sinal * ForcasReaisDaVez[i]])
                  /\ r.hips[nome].forca_axial =
                       Hipotese(esforcos_por_hipotese, nome).barras[BarraDaVez]
             ELSE /\ nome = simulada
                  /\ TemHipotese(esforcos_por_hipotese', simulada)
                  /\ Hipotese(esforcos_por_hipotese', simulada).barras[BarraDaVez]
                       = sinal * FORCA_AXIAL_SIMULADA_MINIMA
                  /\ r.hips[nome].forca_axial = sinal * FORCA_AXIAL_SIMULADA_MINIMA
       IN /\ critica(1, r.hipotese_tracao, "hip_0_t")
          /\ critica(0 - 1, r.hipotese_compressao, "hip_0_c")
          /\ DOMAIN r.hips = {r.hipotese_tracao, r.hipotese_compressao}
          /\ r.forcado_forca_simulada
               <=> (~ TemForcaDeSinal(1) \/ ~ TemForcaDeSinal(0 - 1))]_vars

\* a member with force 0 in every hypothesis was sized with both simulated
\* hypotheses, another one with two real critical hypotheses
C17_NulaComAsDuasSimuladas ==
  /\ \E id \in DOMAIN resultado_final :
       /\ \A h \in 1..Len(HipotesesReais) :
            Hipotese(esforcos_por_hipotese, HipotesesReais[h]).barras[id] = 0
       /\ resultado_final[id].hipotese_tracao = "hip_0_t"
       /\ resultado_final[id].hipotese_compressao = "hip_0_c"
       /\ resultado_final[id].forcado_forca_simulada
  /\ \E id \in DOMAIN resultado_final :
       /\ resultado_final[id].hipotese_tracao # "hip_0_t"
       /\ resultado_final[id].hipotese_compressao # "hip_0_c"
       /\ ~ resultado_final[id].forcado_forca_simulada

\* the two places where dimensionar_barras equalizes resultado_final
NaChamadaDeIgualar == pc \in {"igualar", "igualar_final"}

\* C18: module equalization is idempotent: applied to results it has just
\* equalized it changes no chosen profile and no hypothesis record; the
\* results the first call of the run leaves are a fixed point as well.
C18_IgualarIdempotente ==
  LET fixo(igualado) == igualar_perfis_montantes_por_modulo(igualado) = igualado
  IN /\ NaChamadaDeIgualar =>
          fixo(igualar_perfis_montantes_por_modulo(resultado_final))
     /\ (pc = "reforco" /\ tentativa = 0) => fixo(resultado_final)

\* an equalization that changes the results it is handed
C18_IgualarMudaOResultado ==
  /\ NaChamadaDeIgualar
  /\ igualar_perfis_montantes_por_modulo(resultado_final) # resultado_final

\* C19: after dimensionar_barras returns or fails, the caller's mapping of
\* forces per hypothesis is as it was handed in: it holds the hypotheses of
\* the caller and no other, each with the members of the structure and no
\* other, and no member force has changed during the run.
C19_EsforcosDoChamadorIntactos ==
  [][/\ \A i \in 1..Len(HipotesesReais) :
          /\ i <= Len(esforcos_por_hipotese')
          /\ esforcos_por_hipotese'[i] = esforcos_por_hipotese[i]
     /\ pc' = "fim" =>
          [i \in 1..Len(esforcos_por_hipotese') |-> esforcos_por_hipotese'[i].nome]
            = HipotesesReais]_vars

\* the leg members of resultados that belong to one module share one profile,
\* in the member's own field and in every hypothesis record
ModulosIgualados(resultados) ==
  LET montantes == MontantesDoResultado(resultados)
      perfis(id) == {resultados[id].perfil_escolhido}
                      \cup {resultados[id].hips[h].perfil_escolhido :
                              h \in DOMAIN resultados[id].hips}
  IN \A i, j \in 1..Len(montantes) :
       ModuloDaBarra(resultados, montantes[i])
         = ModuloDaBarra(resultados, montantes[j])
       => /\ perfis(montantes[i]) = perfis(montantes[j])
          /\ Cardinality(perfis(montantes[i])) = 1

\* a reinforcement cycle after the first is about to start
ProximoCicloVaiComecar ==
  pc = "reforco" /\ tentativa >= 1 /\ tentativa < MAX_CICLOS_REFORCO

\* C20: every reinforcement cycle after the first starts from equalized
\* results: the cycle before it was followed by module equalization, so the
\* legs of each module share one profile when the next cycle begins.
C20_CicloComecaIgualado ==
  ProximoCicloVaiComecar => ModulosIgualados(resultado_final)

\* lines 1011-1137 will hand resultado_final back: no abortive exit is taken
VaiDevolverResultado ==
  /\ pc = "verificacao_final"
  /\ \A id \in ids_ligacao_necessaria :
        /\ id \in DOMAIN resultado_final
        /\ resultado_final[id].hips[resultado_final[id].pior_ligacao]
             .verificacao_ligacao.tx_lig <= 100

\* A(cm2) of a catalog profile, 0 for a name the catalog does not hold
AreaBruta(nome) ==
  IF IndicePerfil(df_perfis, nome) = 0 THEN 0 ELSE PerfilPorNome(df_perfis, nome).A

\* the profile the reinforcement loop left on the governing record of a member
PerfilReforcado(id) ==
  resultado_final[id].hips[resultado_final[id].pior_caso].perfil_escolhido

\* C21: a reinforcement to a profile of larger gross area is kept: when the
\* final equalization has run and the result is about to be returned, the
\* chosen profile of every reinforced member has gross area at least that of
\* the profile the reinforcement loop gave it.
C21_ReforcoMantido ==
  [][(pc = "igualar_final" /\ VaiDevolverResultado') =>
       \A id \in barras_reforcadas \cap DOMAIN resultado_final :
          AreaBruta(resultado_final'[id].perfil_escolhido)
            >= AreaBruta(PerfilReforcado(id))]_vars

\* the metadata with each sized member carrying the profile of the result
MetadadosComPerfilFinal ==
  [id \in DOMAIN metadados_barras |->
     IF id \in DOMAIN resultado_final
     THEN [metadados_barras[id] EXCEPT
             !.perfil_escolhido = resultado_final[id].perfil_escolhido]
     ELSE metadados_barras[id]]

\* C22: the connection designs handed back for the legs at module
\* extremities are the designs the optimizer computes from the final chosen
\* profile of each member, the one in the returned per-member result.
C22_LigacoesDoPerfilFinal ==
  (pc = "fim" /\ retorno = "resultado") =>
     ligacoes_forcadas =
       otimizar_ligacoes_montantes_extremidades(MetadadosComPerfilFinal,
                                                esforcos_por_hipotese).ligs

\* the sweeps of the member of the turn selected one and the same profile
PerfisIguaisNaVez ==
  /\ pc = "dimensionar"
  /\ pendentes # <<>>
  /\ VarreduraDaVez(1).perfil_escolhido # "NENHUM"
  /\ VarreduraDaVez(1).perfil_escolhido = VarreduraDaVez(0 - 1).perfil_escolhido

\* the axial utilization, in percent, of the profile a sweep selected
TaxaDoSelecionado(sinal) ==
  TaxaAxialNaVarredura(
    PerfilPorNome(CatalogoDaVez, VarreduraDaVez(sinal).perfil_escolhido), sinal)

\* C23: when the two critical hypotheses of a member select the same profile,
\* the governing hypothesis recorded for the member is the one of strictly
\* larger axial utilization (force over admissible force); when they select
\* different profiles, the adopted profile is the one of larger gross area.
C23_CriticaPorTaxaOuArea ==
  [][/\ (PerfisIguaisNaVez /\ BarraDaVez \in DOMAIN resultado_final') =>
          LET novo == resultado_final'[BarraDaVez]
          IN /\ TaxaDoSelecionado(1) > TaxaDoSelecionado(0 - 1) =>
                  novo.pior_caso = novo.hipotese_tracao
             /\ TaxaDoSelecionado(0 - 1) > TaxaDoSelecionado(1) =>
                  novo.pior_caso = novo.hipotese_compressao
     /\ (PerfisDiferentesNaVez /\ BarraDaVez \in DOMAIN resultado_final') =>
          /\ AreaBruta(resultado_final'[BarraDaVez].perfil_escolhido)
               >= VarreduraDaVez(1).area_bruta
          /\ AreaBruta(resultado_final'[BarraDaVez].perfil_escolhido)
               >= VarreduraDaVez(0 - 1).area_bruta
          /\ resultado_final'[BarraDaVez].perfil_escolhido
               \in {VarreduraDaVez(1).perfil_escolhido,
                    VarreduraDaVez(0 - 1).perfil_escolhido}]_vars

\* lines 409-521: a row of the swept catalog passes every check of the sweep
\* for a critical hypothesis of the member of the turn
PassaNaVarredura(dados_perfil, sinal) ==
  /\ PassaOsDemaisCriterios(dados_perfil, sinal)
  /\ (~ EhMontante(metadados_barras[BarraDaVez].tipo) =>
        TaxaAxialNaVarredura(dados_perfil, sinal)
          <= LIMITE_TAXA_TRABALHO_DIAG_HORIZ)

\* C24: for each critical hypothesis of a member, the profile the sweep
\* selects is a row of the swept catalog that passes every check of the
\* sweep, and no passing row has a smaller mass per length; the hypothesis is
\* marked "NENHUM" exactly when no row passes.
C24_SelecionadoPassaEEOMaisLeve ==
  (pc = "dimensionar" /\ pendentes # <<>>) =>
    \A sinal \in {1, 0 - 1} :
      LET selecionado(v) ==
            /\ (v.perfil_escolhido = "NENHUM") <=>
                  (\A i \in 1..Len(CatalogoDaVez) :
                      ~ PassaNaVarredura(CatalogoDaVez[i], sinal))
            /\ v.perfil_escolhido # "NENHUM" =>
                  /\ IndicePerfil(CatalogoDaVez, v.perfil_escolhido) # 0
                  /\ PassaNaVarredura(
                       PerfilPorNome(CatalogoDaVez, v.perfil_escolhido), sinal)
                  /\ \A i \in 1..Len(CatalogoDaVez) :
                        PassaNaVarredura(CatalogoDaVez[i], sinal) =>
                          PerfilPorNome(CatalogoDaVez, v.perfil_escolhido).Peso
                            <= CatalogoDaVez[i].Peso
      IN selecionado(VarreduraDaVez(sinal))

\* a sweep in which a passing row comes before the selected one and is heavier
C24_LeveDepoisDeUmPesado ==
  /\ pc = "dimensionar"
  /\ pendentes # <<>>
  /\ \E sinal \in {1, 0 - 1} :
       /\ VarreduraDaVez(sinal).perfil_escolhido # "NENHUM"
       /\ \E i \in 1..Len(CatalogoDaVez) :
            /\ PassaNaVarredura(CatalogoDaVez[i], sinal)
            /\ i < IndicePerfil(CatalogoDaVez, VarreduraDaVez(sinal).perfil_escolhido)
            /\ CatalogoDaVez[i].Peso
                 > PerfilPorNome(CatalogoDaVez,
                                 VarreduraDaVez(sinal).perfil_escolhido).Peso

(***************************************************************************)
(* Direct calls of reforcar_montante_ate_viavel                            *)
(***************************************************************************)
\* the current profile of the call: every name of the spreadsheet
PerfisAtuais == NomesPerfis

ForcasDeReforco ==
  { 300000, 0 - 300000, 1000000, 0 - 400000, 1400000, 0 - 1000000, 1600000 }

ComprimentosDeReforco == {1000, 2000}

InitReforco ==
  /\ chamada \in [funcao : {"reforcar_montante_ate_viavel"},
                  perfil_atual : PerfisAtuais,
                  forca_axial : ForcasDeReforco,
                  tipo_barra : {"montante_esq", "montante_dir"},
                  comprimento : ComprimentosDeReforco,
                  angulo_graus : {90},
                  interromper_se_inviavel : BOOLEAN]
  /\ devolvido = SemChamada
  /\ estrutura = "D2"
  /\ interromper_se_inviavel = FALSE
  /\ esforcos_por_hipotese = <<>>
  /\ metadados_barras = SemEntradas
  /\ ids_ligacao_necessaria = {}
  /\ barras_exclusivamente_tracionadas = {}
  /\ pendentes = <<>>
  /\ resultado_final = SemEntradas
  /\ ligacoes_forcadas = SemEntradas
  /\ barras_reforcadas = {}
  /\ tentativa = 0
  /\ pc = "chamada"
  /\ retorno = "pendente"

\* the call: [erro, achou, perfil, lig]
ChamarReforco ==
  /\ pc = "chamada"
  /\ chamada.funcao = "reforcar_montante_ate_viavel"
  /\ devolvido' = reforcar_montante_ate_viavel(chamada.perfil_atual,
                     chamada.forca_axial, chamada.tipo_barra, chamada.comprimento,
                     chamada.angulo_graus, chamada.interromper_se_inviavel)
  /\ pc' = "reforcada"
  /\ UNCHANGED <<estrutura, interromper_se_inviavel, esforcos_por_hipotese,
                 metadados_barras, ids_ligacao_necessaria,
                 barras_exclusivamente_tracionadas, pendentes, resultado_final,
                 ligacoes_forcadas, barras_reforcadas, tentativa, retorno,
                 chamada>>

NextReforco == ChamarReforco

SpecReforco == InitReforco /\ [][NextReforco]_vars

\* the call returned a profile
ReforcoDevolvido == pc = "reforcada" /\ devolvido.erro = "" /\ devolvido.achou

\* lines 646-652: the table the call scans
TabelaDeReforco ==
  OrdenarPorArea(filtrar_perfis_montante_reforco(df_perfis,
                                                 diametros_furos.montante))

\* lines 660-693: a row passes the connection and the axial+bending criteria
\* of the call
LinhaAtende(linha) ==
  /\ wrapper_ligacao_montante(linha, chamada.forca_axial, chamada.tipo_barra)
       .tx_lig <= 100
  /\ verificar_axial_flexao(linha, chamada.forca_axial, chamada.tipo_barra,
                            chamada.comprimento, chamada.angulo_graus).tx <= 100

CasoCritico(resultados, id) == resultados[id].hips[resultados[id].pior_caso]

\* verif_normativas.py, lines 361-403: the profile of the governing record
\* carries the governing force in compression (slenderness of a compressed
\* leg, buckling stress on the gross section)
PassaNaCompressao(caso) ==
  /\ IndicePerfil(df_perfis, caso.perfil_escolhido) # 0
  /\ calcula_tensao_axial_admissivel(
       PerfilPorNome(df_perfis, caso.perfil_escolhido),
       0 - Abs(caso.forca_axial), caso.tipo, caso.comprimento_destravado,
       diametros_furos.montante, FALSE, TRUE).viavel

\* C27: the axial check that accepts a profile in a reinforcement cycle is
\* made in compression whatever the sign of the force, so after a cycle every
\* reinforced member governed by a compressive force has, on its governing
\* record, a profile that passes the compression check for that force.
C27_ReforcoVerificaCompressao ==
  [][(pc = "reforco" /\ pc' \in {"reforco", "revalidacao"}) =>
       \A id \in barras_reforcadas' \ barras_reforcadas :
          CasoCritico(resultado_final', id).forca_axial < 0 =>
            PassaNaCompressao(CasoCritico(resultado_final', id))]_vars

\* dimensionar_barras is at one of its two calls of the optimizer of the
\* connections at module extremities (lines 745 and 995)
NaChamadaDoOtimizador == pc \in {"ligacoes", "igualar_final"}

\* C28: the optimizer of the connections at module extremities ends without
\* error for every group: whatever the forces, the profiles and the metadata
\* of its members (which carry no flange thickness), the escalation loop of
\* each critical member ends by accepting a design or by giving up.
C28_OtimizadorTerminaSemErro ==
  NaChamadaDoOtimizador =>
    otimizar_ligacoes_montantes_extremidades(metadados_barras,
                                             esforcos_por_hipotese).erro = ""

(***************************************************************************)
(* Direct calls of calcula_tensao_axial_admissivel                         *)
(***************************************************************************)
\* rows whose bolt-hole deduction leaves a net area of zero (L25x3f) and a
\* negative one (L25x3g): 144 - 3 * 16 * 3 and 142 - 3 * 16 * 3
GeometriasSemAreaLiquida ==
  { [Perfil |-> "L25x3f", A |-> 144, rx |-> 8, rz |-> 5, b |-> 25, t |-> 3,
     raio_lam |-> 3, Wx |-> 450, Peso |-> 11, Dmax |-> 16, Notas |-> NotaOK,
     NpMin |-> 2, QtdFurosAn |-> 3],
    [Perfil |-> "L25x3g", A |-> 142, rx |-> 8, rz |-> 5, b |-> 25, t |-> 3,
     raio_lam |-> 3, Wx |-> 450, Peso |-> 11, Dmax |-> 16, Notas |-> NotaOK,
     NpMin |-> 2, QtdFurosAn |-> 3] }

GeometriasDaChamada ==
  {tabela_perfis[i] : i \in 1..Len(tabela_perfis)} \cup GeometriasSemAreaLiquida

ForcasAxiais == { 0, 1, 0 - 1, 300000, 0 - 300000, 1300000, 0 - 1300000 }

ComprimentosEfetivos == {500, 1000, 2000}

InitAxial ==
  /\ chamada \in [funcao : {"calcula_tensao_axial_admissivel"},
                  dados_perfil : GeometriasDaChamada,
                  forca_axial : ForcasAxiais,
                  tipo_barra : {"montante_esq", "diagonal"},
                  comprimento_efetivo : ComprimentosEfetivos,
                  limitar_esbeltez_tracao : BOOLEAN,
                  forcar_verificacao_compressao : BOOLEAN]
  /\ devolvido = SemChamada
  /\ estrutura = "D2"
  /\ interromper_se_inviavel = FALSE
  /\ esforcos_por_hipotese = <<>>
  /\ metadados_barras = SemEntradas
  /\ ids_ligacao_necessaria = {}
  /\ barras_exclusivamente_tracionadas = {}
  /\ pendentes = <<>>
  /\ resultado_final = SemEntradas
  /\ ligacoes_forcadas = SemEntradas
  /\ barras_reforcadas = {}
  /\ tentativa = 0
  /\ pc = "chamada"
  /\ retorno = "pendente"

\* the call: the dictionary returned
ChamarAxial ==
  /\ pc = "chamada"
  /\ chamada.funcao = "calcula_tensao_axial_admissivel"
  /\ devolvido' = calcula_tensao_axial_admissivel(chamada.dados_perfil,
                     chamada.forca_axial, chamada.tipo_barra,
                     chamada.comprimento_efetivo,
                     DiametroFuro(chamada.tipo_barra),
                     chamada.limitar_esbeltez_tracao,
                     chamada.forcar_verificacao_compressao)
  /\ pc' = "verificada"
  /\ UNCHANGED <<estrutura, interromper_se_inviavel, esforcos_por_hipotese,
                 metadados_barras, ids_ligacao_necessaria,
                 barras_exclusivamente_tracionadas, pendentes, resultado_final,
                 ligacoes_forcadas, barras_reforcadas, tentativa, retorno,
                 chamada>>

NextAxial == ChamarAxial

SpecAxial == InitAxial /\ [][NextAxial]_vars

\* C29: a profile calcula_tensao_axial_admissivel reports as feasible has a
\* utilization of at most 1.0, and a utilization above 1.0 comes with an
\* infeasible report, for every geometry, a net effective area of zero or
\* less included.
C29_ViavelSeESoSeTaxaAteUm ==
  pc = "verificada" =>
    /\ devolvido.viavel =>
         (devolvido.taxa_trabalho # Nulo /\ devolvido.taxa_trabalho <= 100)
    /\ (devolvido.taxa_trabalho # Nulo /\ devolvido.taxa_trabalho > 100) =>
         ~ devolvido.viavel

(***************************************************************************)
(* Properties of the retries of the reinforcement loop                     *)
(***************************************************************************)
\* lines 832-879: the connection-required members a cycle started from the
\* present records marks as failing
BarrasQueFalhamEm(resultados) ==
  { id \in ids_ligacao_necessaria :
      \/ id \notin DOMAIN resultados
      \/ resultados[id].perfil_escolhido = "NENHUM"
      \/ LET caso == CasoCritico(resultados, id)
             dados == metadados_barras[id]
         IN ~ reforcar_montante_ate_viavel(caso.perfil_escolhido,
                Abs(caso.forca_axial), dados.tipo,
                IF EhMontante(dados.tipo) THEN dados.comprimento_destravado
                ELSE dados.comprimento,
                dados.alfa_graus, interromper_se_inviavel).achou }

BarrasQueFalham == BarrasQueFalhamEm(resultado_final)

\* C30: the set of failing connection-required members is the same in every
\* cycle of the reinforcement loop; the loop ends after its first cycle or
\* runs all 10 cycles and fails, and a retry never succeeds where the first
\* cycle failed.
C30_RepeticaoNuncaConverge ==
  [][pc = "reforco" =>
       /\ pc' = "reforco" => BarrasQueFalhamEm(resultado_final') = BarrasQueFalham
       /\ tentativa >= 1 =>
            /\ BarrasQueFalham # {}
            /\ pc' # "revalidacao"
            /\ tentativa < MAX_CICLOS_REFORCO =>
                 (pc' = "reforco" /\ tentativa' = tentativa + 1)
            /\ tentativa = MAX_CICLOS_REFORCO =>
                 (pc' = "fim" /\ retorno' = Falha)]_vars

\* a retry under way after a cycle that reinforced one member and left
\* another failing
C30_RepeticaoDepoisDeUmReforco ==
  /\ pc = "reforco"
  /\ tentativa >= 2
  /\ barras_reforcadas # {}
  /\ BarrasQueFalham # {}
  /\ \E id \in barras_reforcadas :
        CasoCritico(resultado_final, id).perfil_escolhido
          # resultado_final[id].perfil_escolhido

====
